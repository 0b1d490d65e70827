---------------------------- MODULE DriverPool ----------------------------
(***************************************************************************)
(* What the pool of NPU drivers promises: a driver is absent, free, or in  *)
(* the hands of one thread, and changes hands only through the pool.       *)
(***************************************************************************)
CONSTANTS Threads, Drivers, Absent, Free

VARIABLE holder  \* who has each driver

Init == holder = [d \in Drivers |-> Absent]

\* ethosu_init puts a driver into the pool, ethosu_deinit takes it out.
Add(d) == holder[d] = Absent /\ holder' = [holder EXCEPT ![d] = Free]

Remove(d) == holder[d] = Free /\ holder' = [holder EXCEPT ![d] = Absent]

\* ethosu_reserve_driver hands a free driver to a thread ...
Reserve(t, d) == holder[d] = Free /\ holder' = [holder EXCEPT ![d] = t]

\* ... and ethosu_release_driver takes it back from that thread.
Release(t, d) == holder[d] = t /\ holder' = [holder EXCEPT ![d] = Free]

Next ==
    \E d \in Drivers :
        \/ Add(d) \/ Remove(d)
        \/ \E t \in Threads : Reserve(t, d) \/ Release(t, d)

Spec == Init /\ [][Next]_holder
=============================================================================

---------------------------- MODULE FirmwareSlots ----------------------------
(* What the firmware server promises of its partitions.  Each holds one whole *)
(* firmware or none (torn, mixed and erased contents are none), and has a     *)
(* saved record that lists one firmware or none.  Contents and record change  *)
(* one after the other, on behalf of the request being served, which may end  *)
(* by success, failure or power loss at any point:                            *)
(*   - a record comes to list a firmware only when the partition holds all of *)
(*     it, and is empty in between two firmwares;                             *)
(*   - the contents of a listed partition are overwritten only by an erase,   *)
(*     or when records cannot always be saved.                                *)
(* In these two cases a record may list what the partition no longer holds.   *)
CONSTANTS
    Parts, Images, Bootable,
    Empty,        \* no firmware
    SavesMayFail  \* whether a record may not be saved

VARIABLES
    held,    \* the firmware each partition holds, or Empty
    listed,  \* the firmware its saved record lists, or Empty
    job      \* the request being served

NoJob == [op |-> "none", part |-> Empty, fw |-> Empty]
Jobs == [op : {"upload"}, part : Parts, fw : Images]
            \cup [op : {"erase"}, part : Parts, fw : {Empty}]

NoneOf == [p \in Parts |-> Empty]
Init == held = NoneOf /\ listed = NoneOf /\ job = NoJob

Accept(j) == job = NoJob /\ job' = j /\ UNCHANGED <<held, listed>>

\* A job goes on or ends.
Working == job # NoJob /\ job' \in {job, NoJob}

\* An upload fills the partition of its job with its firmware, an erase with
\* nothing; before they are through it holds no whole firmware.
Write ==
    /\ Working
    /\ job.op = "erase" \/ listed[job.part] = Empty \/ SavesMayFail
    /\ \E f \in {Empty, job.fw} : held' = [held EXCEPT ![job.part] = f]
    /\ UNCHANGED listed

Unlist ==
    /\ Working
    /\ listed' = [listed EXCEPT ![job.part] = Empty]
    /\ UNCHANGED held

List ==
    /\ Working
    /\ job.op = "upload" /\ job.fw \in Bootable
    /\ held[job.part] = job.fw /\ listed[job.part] = Empty
    /\ listed' = [listed EXCEPT ![job.part] = job.fw]
    /\ UNCHANGED held

Drop == job' = NoJob /\ UNCHANGED <<held, listed>>

Next ==
    \/ \E j \in Jobs : Accept(j)
    \/ Write \/ Unlist \/ List \/ Drop

Spec == Init /\ [][Next]_<<held, listed, job>>
=============================================================================

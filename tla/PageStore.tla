------------------------------ MODULE PageStore ------------------------------
(***************************************************************************)
(* What the memory mappings rely on when they write a page of the device   *)
(* (AbstractMemoryMapping::writePage): while a page is being written, and  *)
(* after a write that failed or was abandoned, its content may be anything;*)
(* a write that returns normally has stored its data; and then the page    *)
(* keeps that data until it is written again.                              *)
(***************************************************************************)
CONSTANTS Pages, Data, Damaged, NoJob

VARIABLES store, job, exposed
vars == <<store, job, exposed>>

Job == [page : Pages, data : Data]

Init ==
    /\ store \in [Pages -> Data \cup {Damaged}]
    /\ job = NoJob
    /\ exposed = {}

Begin(p, d) ==
    /\ job = NoJob
    /\ job' = [page |-> p, data |-> d]
    /\ exposed' = exposed \cup {p}
    /\ UNCHANGED store

\* Only a page whose last write has not ended well can change.
Change(p, content) ==
    /\ p \in exposed
    /\ store' = [store EXCEPT ![p] = content]
    /\ UNCHANGED <<job, exposed>>

\* writePage returns.
EndOk ==
    /\ job # NoJob
    /\ store[job.page] = job.data
    /\ exposed' = exposed \ {job.page}
    /\ job' = NoJob
    /\ UNCHANGED store

\* writePage throws, or its process ends.
EndFailed ==
    /\ job # NoJob
    /\ job' = NoJob
    /\ UNCHANGED <<store, exposed>>

Next ==
    \/ \E p \in Pages, d \in Data : Begin(p, d)
    \/ \E p \in Pages, c \in Data \cup {Damaged} : Change(p, c)
    \/ EndOk
    \/ EndFailed

Spec == Init /\ [][Next]_vars
=============================================================================

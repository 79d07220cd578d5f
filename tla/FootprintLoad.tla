---------------------------- MODULE FootprintLoad ----------------------------
(***************************************************************************)
(* What a run of cmd/ingest-footprints promises: the buildings of a file   *)
(* get their footprints in the order of the file, BatchN at a time and     *)
(* each batch at once; a run that breaks off has loaded whole batches; a   *)
(* later run starts over; and no load changes the damage that reports have *)
(* given a building.                                                       *)
(***************************************************************************)
EXTENDS Naturals, Sequences

CONSTANTS
  Buildings,
  BatchN      \* rows per commit

VARIABLES
  footprint,  \* footprint[b]: the load that gave b its footprint, 0 for none
  load,       \* the loads begun so far
  due,        \* the buildings that are still to be loaded, in order
  loading,    \* a load is running
  damage      \* damage[b]: the damage shown for b

lvars == <<footprint, load, due, loading, damage>>

LInit == /\ footprint = [b \in Buildings |-> 0]
         /\ load = 0 /\ due = <<>> /\ loading = FALSE

BeginLoad == /\ ~loading
             /\ load' = load + 1
             /\ loading' = TRUE
             /\ due' \in Seq(Buildings)
             /\ UNCHANGED <<footprint, damage>>

\* The first n buildings that are due.
Load(n) == LET batch == {due[i] : i \in 1 .. n} IN
           footprint' = [b \in Buildings |-> IF b \in batch THEN load ELSE footprint[b]]

LoadBatch == /\ loading /\ BatchN <= Len(due)
             /\ Load(BatchN)
             /\ due' = SubSeq(due, BatchN + 1, Len(due))
             /\ UNCHANGED <<load, loading, damage>>

EndLoad == /\ loading /\ Len(due) < BatchN
           /\ Load(Len(due))
           /\ due' = <<>>
           /\ loading' = FALSE
           /\ UNCHANGED <<load, damage>>

BreakOff == /\ loading
            /\ due' = <<>>
            /\ loading' = FALSE
            /\ UNCHANGED <<footprint, load, damage>>

\* A building is left out: its upsert was the victim of a deadlock.
LeaveOut == /\ loading
            /\ \E i \in 1 .. Len(due) :
                 due' = SubSeq(due, 1, i - 1) \o SubSeq(due, i + 1, Len(due))
            /\ UNCHANGED <<footprint, load, loading, damage>>

\* A report comes in, whatever the load is doing.
Report == damage' # damage /\ UNCHANGED <<footprint, load, due, loading>>

LNext == BeginLoad \/ LoadBatch \/ EndLoad \/ BreakOff \/ LeaveOut \/ Report

LSpec == LInit /\ [][LNext]_lvars
==============================================================================

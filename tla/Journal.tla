-------------------------------- MODULE Journal --------------------------------
(***************************************************************************)
(* A Journallable, its Port and its MMapStorage (pcomn_journal), and the   *)
(* files they leave behind when the process dies.                          *)
(*                                                                         *)
(* A journal is a checkpoint file and a chain of segment files.  The       *)
(* checkpoint names the first segment after it; a segment is followed by   *)
(* the one with the next number.  An operation is appended to the last     *)
(* segment before it is applied.  A checkpoint starts a new segment, is    *)
(* written beside the old one (.taking), committed, renamed over it, and   *)
(* only then are the segments before it removed.                           *)
(*                                                                         *)
(* The locks of Journallable and Storage let one call in at a time, so the *)
(* steps here are those of one thread: every change of a file is a step,   *)
(* and the process may die before each.  What has been written stays: the  *)
(* process dies, not the machine.  Operations are numbers in the order in  *)
(* which they are applied; 0 is a record that was not written to its end.  *)
(***************************************************************************)
EXTENDS Naturals, FiniteSets, SequencesExt, FiniteSetsExt

CONSTANTS MaxOps,        \* how many operations are applied
          MaxSegment,    \* the segments are 0..MaxSegment
          CloseLeftOpen, \* a storage may be closed with a later checkpoint left open
          None

ASSUME BoundsAssumption == MaxOps \in Nat /\ MaxSegment \in Nat
ASSUME CloseAssumption == CloseLeftOpen \in BOOLEAN

Ops == 1..MaxOps
Torn == 0
Ids == 0..MaxSegment

\* The files.  A segment without its header, or a checkpoint without its tail,
\* is not ok.  A generation counts the records before the file.
Segments == [gen : Nat, recs : Seq(Ops \cup {Torn}), ok : BOOLEAN]
Checkpoints == [next : Ids, gen : Nat, content : Seq(Ops), ok : BOOLEAN]

ASSUME NoneAssumption == None \notin Ids \cup Segments \cup Checkpoints

VARIABLES cp,      \* the checkpoint file (.pchkp), or None
          taking,  \* the checkpoint being taken (.pchkp.taking), or None
          segs,    \* segs[i]: the segment file number i, or None
          storage, \* Storage::_state, "none" while no process runs
          state,   \* Journallable::_state between calls
          mem,     \* the operations applied to the Journallable
          seg,     \* _segment: the one written to, or None
          own,     \* _checkpoint is a file still open for writing
          lastid,  \* _last_id
          lastgen, \* _lastgen
          pc,      \* the step at which the call is, "idle" between calls
          call,    \* the call: "restore", "set" or "checkpoint"
          applied, \* the number of operations applied so far
          acked    \* the operations reported as journalled

vars == <<cp, taking, segs, storage, state, mem, seg, own, lastid, lastgen, pc,
          call, applied, acked>>
files == <<cp, taking, segs>>

Init == /\ cp = None /\ taking = None
        /\ segs = [i \in Ids |-> None]
        /\ storage = "none" /\ state = "initial"
        /\ mem = <<>> /\ seg = None /\ own = FALSE
        /\ lastid = 0 /\ lastgen = 0
        /\ pc = "idle" /\ call = "none"
        /\ applied = 0 /\ acked = <<>>

-----------------------------------------------------------------------------
(* What open_storage() and restore_from() read *)

\* The records of a segment up to the first one that cannot be read.
Records(i) == LET recs == segs[i].recs
                  torn == {k \in DOMAIN recs : recs[k] = Torn}
              IN IF torn = {} THEN recs ELSE SubSeq(recs, 1, Min(torn) - 1)

\* The segments from the checkpoint on, up to a gap, a file without a header, or
\* a first one of another generation (empty segments do not count as first).
Chain ==
    {i \in Ids :
        /\ i >= cp.next
        /\ \A j \in cp.next..i :
               /\ segs[j] # None /\ segs[j].ok
               /\ (\A k \in cp.next..(j - 1) : segs[k].recs = <<>>)
                      => segs[j].gen = cp.gen}

Replayed == FlattenSeq([n \in 1..Cardinality(Chain) |-> Records(cp.next + n - 1)])

\* The checkpoint is checked to its end.
Opens == cp # None /\ cp.ok

\* What restore_from() would deliver.
Recovered == IF Opens THEN cp.content \o Replayed ELSE <<>>

\* The number after the last segment that has delivered a record.
NextId == LET delivering == {i \in Chain : Records(i) # <<>>}
          IN IF delivering = {} THEN cp.next ELSE Max(delivering) + 1

-----------------------------------------------------------------------------
(* Opening, restoring and applying *)

\* MMapStorage(path, segdir): an empty checkpoint file, created exclusively.
Create == /\ storage = "none" /\ cp = None
          /\ cp' = [next |-> 0, gen |-> 0, content |-> <<>>, ok |-> FALSE]
          /\ storage' = "created"
          /\ own' = TRUE
          /\ UNCHANGED <<taking, segs, state, mem, seg, lastid, lastgen, pc, call,
                         applied, acked>>

\* open_storage().
Open == /\ storage = "none" /\ Opens
        /\ storage' = "readable"
        /\ lastid' = cp.next
        /\ lastgen' = cp.gen
        /\ UNCHANGED <<files, state, mem, seg, own, pc, call, applied, acked>>

\* restore_from(): the program knows then what has been kept.
Restore(connect) ==
    /\ storage = "readable" /\ state = "initial" /\ pc = "idle"
    /\ mem' = Recovered
    /\ acked' = Recovered
    /\ lastid' = NextId
    /\ lastgen' = cp.gen + Len(Replayed)
    /\ state' = "restored"
    /\ IF connect THEN pc' = "new_segment" /\ call' = "restore"
                  ELSE UNCHANGED <<pc, call>>
    /\ UNCHANGED <<files, storage, seg, own, applied>>

\* set_journal(): a storage just created, or one that has been restored from,
\* is made writable, and a checkpoint follows.
SetJournal ==
    /\ pc = "idle"
    /\ \/ storage = "created" /\ state = "initial"
          /\ storage' = "writable" /\ pc' = "init_checkpoint"
       \/ storage = "readable" /\ state = "restored"
          /\ pc' = "new_segment" /\ UNCHANGED storage
    /\ call' = "set"
    /\ UNCHANGED <<files, state, mem, seg, own, lastid, lastgen, applied, acked>>

\* set_journal(NULL): the storage is left as it is.
DropJournal == /\ pc = "idle" /\ state = "active"
               /\ state' = "restored"
               /\ UNCHANGED <<files, storage, mem, seg, own, lastid, lastgen, pc, call,
                              applied, acked>>

\* apply() without a journal.
ApplyOnly == /\ pc = "idle" /\ state = "restored" /\ applied < MaxOps
             /\ mem' = Append(mem, applied + 1)
             /\ applied' = applied + 1
             /\ UNCHANGED <<files, storage, state, seg, own, lastid, lastgen, pc, call,
                            acked>>

Write(i, r) == segs' = [segs EXCEPT ![i].recs = Append(@, r)]

\* apply(): store_operation() comes first.
Store == /\ pc = "idle" /\ state = "active" /\ applied < MaxOps
         /\ applied' = applied + 1
         /\ Write(seg, applied + 1)
         /\ lastgen' = lastgen + 1
         /\ pc' = "apply"
         /\ UNCHANGED <<cp, taking, storage, state, mem, seg, own, lastid, call, acked>>

Apply == /\ pc = "apply"
         /\ mem' = Append(mem, applied)
         /\ acked' = Append(acked, applied)
         /\ pc' = "idle"
         /\ UNCHANGED <<files, storage, state, seg, own, lastid, lastgen, call, applied>>

-----------------------------------------------------------------------------
(* new_segment_file(): for make_writable(), a checkpoint or after the first *)

\* The call ends; the Journallable is left in the state st.
Return(st) == pc' = "idle" /\ call' = "none" /\ state' = st

\* Its number: the one after those replayed, the first, or the next.
Target == IF storage = "readable" THEN lastid
          ELSE IF seg = None THEN 0 ELSE seg + 1

\* A slip: a file of that name is appended to.
ReuseSegment == /\ pc = "new_segment" /\ Target \in Ids /\ segs[Target] # None
                /\ pc' = "use_segment"
                /\ UNCHANGED <<files, storage, state, mem, seg, own, lastid, lastgen,
                               call, applied, acked>>

\* The file is created, and its header is written in the next step; one that
\* has the name already is replaced by a whole file.
CreateSegment ==
    /\ pc = "new_segment" /\ Target \in Ids /\ segs[Target] = None
    /\ segs' = [segs EXCEPT ![Target] = [gen |-> lastgen, recs |-> <<>>, ok |-> FALSE]]
    /\ pc' = "init_segment"
    /\ UNCHANGED <<cp, taking, storage, state, mem, seg, own, lastid, lastgen, call,
                   applied, acked>>

InitSegment == /\ pc = "init_segment"
               /\ segs' = [segs EXCEPT ![Target].ok = TRUE]
               /\ pc' = "use_segment"
               /\ UNCHANGED <<cp, taking, storage, state, mem, seg, own, lastid, lastgen,
                              call, applied, acked>>

ReplaceSegment ==
    /\ pc = "new_segment" /\ Target \in Ids /\ segs[Target] # None
    /\ segs' = [segs EXCEPT ![Target] = [gen |-> lastgen, recs |-> <<>>, ok |-> TRUE]]
    /\ pc' = "use_segment"
    /\ UNCHANGED <<cp, taking, storage, state, mem, seg, own, lastid, lastgen, call,
                   applied, acked>>

\* It becomes _segment: make_writable() is over, or the checkpoint goes on.
UseSegment ==
    /\ pc = "use_segment"
    /\ seg' = Target
    /\ CASE storage = "readable" ->
              /\ storage' = "writable"
              /\ lastid' = cp.next
              /\ IF call = "restore" THEN Return("active")
                 ELSE pc' = "new_segment" /\ UNCHANGED <<call, state>>
         [] storage = "writable" /\ seg = None ->
              pc' = "sync" /\ UNCHANGED <<storage, lastid, call, state>>
         [] OTHER ->
              pc' = "create_checkpoint" /\ UNCHANGED <<storage, lastid, call, state>>
    /\ UNCHANGED <<files, mem, own, lastgen, applied, acked>>

\* It cannot be created: what there is of it is removed.  make_writable() has
\* closed the storage, the first checkpoint is removed, a later one not begun.
SegmentFails ==
    /\ pc \in {"new_segment", "init_segment"}
    /\ segs' = IF pc = "init_segment" THEN [segs EXCEPT ![Target] = None] ELSE segs
    /\ storage' = IF storage = "readable" THEN "closed" ELSE storage
    /\ cp' = IF storage = "writable" /\ seg = None THEN None ELSE cp
    /\ Return(state)
    /\ UNCHANGED <<taking, mem, seg, own, lastid, lastgen, applied, acked>>

-----------------------------------------------------------------------------
(* take_checkpoint_unlocked() *)

TakeCheckpoint == /\ pc = "idle" /\ state = "active"
                  /\ pc' = "new_segment" /\ call' = "checkpoint"
                  /\ UNCHANGED <<files, storage, state, mem, seg, own, lastid, lastgen,
                                 applied, acked>>

First == seg = None

\* The file being written: the first one has its name from the beginning.
File == IF First THEN cp ELSE taking
SetFile(f) == IF First THEN cp' = f /\ UNCHANGED taking
              ELSE taking' = f /\ UNCHANGED cp

\* Created exclusively.
CreateCheckpoint ==
    /\ pc = "create_checkpoint" /\ taking = None
    /\ taking' = [next |-> seg, gen |-> lastgen, content |-> <<>>, ok |-> FALSE]
    /\ own' = TRUE
    /\ pc' = "init_checkpoint"
    /\ UNCHANGED <<cp, segs, storage, state, mem, seg, lastid, lastgen, call, applied,
                   acked>>

\* One left over by a crash makes the call fail every time; the new segment
\* stays in use.
CreateCheckpointFails ==
    /\ pc = "create_checkpoint"
    /\ Return(state)
    /\ UNCHANGED <<files, storage, mem, seg, own, lastid, lastgen, applied, acked>>

InitCheckpoint == /\ pc = "init_checkpoint"
                  /\ pc' = "save_checkpoint"
                  /\ UNCHANGED <<files, storage, state, mem, seg, own, lastid, lastgen,
                                 call, applied, acked>>

\* create_checkpoint() throws: the checkpoint is not rolled back, and left open.
InitCheckpointFails ==
    /\ pc = "init_checkpoint"
    /\ Return(state)
    /\ UNCHANGED <<files, storage, mem, seg, own, lastid, lastgen, applied, acked>>

SaveCheckpoint == /\ pc = "save_checkpoint"
                  /\ SetFile([File EXCEPT !.content = mem])
                  /\ pc' = "commit"
                  /\ UNCHANGED <<segs, storage, state, mem, seg, own, lastid, lastgen,
                                 call, applied, acked>>

\* The tail with the CRC, and fsync.
Commit == /\ pc = "commit"
          /\ SetFile([File EXCEPT !.ok = TRUE])
          /\ own' = FALSE
          /\ pc' = IF First THEN "new_segment" ELSE "rename"
          /\ UNCHANGED <<segs, storage, state, mem, seg, lastid, lastgen, call, applied,
                         acked>>

\* A slip: the old checkpoint is removed before the new one takes its place.
RenameLate == /\ pc = "rename"
              /\ IF cp # None THEN cp' = None /\ UNCHANGED <<taking, pc>>
                 ELSE cp' = taking /\ taking' = None /\ pc' = "sync"
              /\ UNCHANGED <<segs, storage, state, mem, seg, own, lastid, lastgen, call,
                             applied, acked>>

Rename == /\ pc = "rename"
          /\ cp' = taking
          /\ taking' = None
          /\ pc' = "sync"
          /\ UNCHANGED <<segs, storage, state, mem, seg, own, lastid, lastgen, call,
                         applied, acked>>

\* Saving, committing or renaming throws: the file is removed.
CheckpointFails == /\ pc \in {"save_checkpoint", "commit", "rename"}
                   /\ SetFile(None)
                   /\ own' = FALSE
                   /\ Return(state)
                   /\ UNCHANGED <<segs, storage, mem, seg, lastid, lastgen, applied,
                                  acked>>

\* Saving throws, and so does the flush of the directory in the rollback: the file
\* is removed, but left open.
RollbackFails == /\ pc = "save_checkpoint"
                 /\ SetFile(None)
                 /\ Return(state)
                 /\ UNCHANGED <<segs, storage, mem, seg, own, lastid, lastgen, applied,
                                acked>>

\* The directory is flushed, or that throws with everything in place; the rollback
\* removes the file of a checkpoint that a crash has left over.
Sync == /\ pc = "sync"
        /\ pc' = "clean"
        /\ UNCHANGED <<files, storage, state, mem, seg, own, lastid, lastgen, call,
                       applied, acked>>

SyncFails == /\ pc = "sync"
             /\ taking' = None
             /\ Return(state)
             /\ UNCHANGED <<cp, segs, storage, mem, seg, own, lastid, lastgen, applied,
                            acked>>

\* A slip: the segment in use is removed with those before it.
CleanTooMany ==
    /\ pc = "clean"
    /\ IF lastid <= seg
       THEN /\ segs' = [segs EXCEPT ![lastid] = None]
            /\ lastid' = lastid + 1
            /\ UNCHANGED <<pc, call, state, acked>>
       ELSE Return("active") /\ acked' = mem /\ UNCHANGED <<segs, lastid>>
    /\ UNCHANGED <<cp, taking, storage, mem, seg, own, lastgen, applied>>

\* cleanup_obsolete_segments(), one after the other, and the end.
Clean == /\ pc = "clean"
         /\ IF lastid < seg
            THEN /\ segs' = [segs EXCEPT ![lastid] = None]
                 /\ lastid' = lastid + 1
                 /\ UNCHANGED <<pc, call, state, acked>>
            ELSE Return("active") /\ acked' = mem /\ UNCHANGED <<segs, lastid>>
         /\ UNCHANGED <<cp, taking, storage, mem, seg, own, lastgen, applied>>

-----------------------------------------------------------------------------
(* The end of the process *)

\* Everything in memory is gone.
Gone == /\ storage' = "none" /\ state' = "initial" /\ pc' = "idle" /\ call' = "none"
        /\ mem' = <<>> /\ seg' = None /\ own' = FALSE /\ lastid' = 0 /\ lastgen' = 0
        /\ UNCHANGED <<applied, acked>>

Unlink(i) == segs' = [segs EXCEPT ![i] = None]

\* ~MMapStorage(), between two calls: a storage never written to is removed, an
\* empty segment too, and "nonclosed checkpoints must be removed" - by the name
\* of the committed one, if it is not the first.
Close ==
    /\ storage # "none" /\ pc = "idle"
    /\ own /\ ~First => CloseLeftOpen
    /\ CASE storage = "created" -> cp' = None /\ Unlink(0)
         [] storage = "writable" /\ own -> cp' = None /\ UNCHANGED segs
         [] storage = "writable" /\ ~own /\ seg # None /\ segs[seg].recs = <<>> ->
              Unlink(seg) /\ UNCHANGED cp
         [] OTHER -> UNCHANGED <<cp, segs>>
    /\ UNCHANGED taking
    /\ Gone

\* The process dies; a failed write of a record ends in PCOMN_FAIL, too.
Crash == storage # "none" /\ UNCHANGED files /\ Gone

\* It dies in the middle of writing a record.
CrashInRecord == /\ pc = "idle" /\ state = "active" /\ applied < MaxOps
                 /\ Write(seg, Torn)
                 /\ UNCHANGED <<cp, taking>>
                 /\ Gone

Next == \/ Create \/ Open \/ SetJournal \/ DropJournal
        \/ \E connect \in BOOLEAN : Restore(connect)
        \/ ApplyOnly \/ Store \/ Apply
        \/ CreateSegment \/ InitSegment \/ ReplaceSegment \/ UseSegment \/ SegmentFails
        \/ TakeCheckpoint \/ CreateCheckpoint \/ CreateCheckpointFails
        \/ InitCheckpoint \/ InitCheckpointFails
        \/ SaveCheckpoint \/ Commit \/ Rename \/ CheckpointFails \/ RollbackFails
        \/ Sync \/ SyncFails \/ Clean
        \/ Close \/ Crash \/ CrashInRecord

Spec == Init /\ [][Next]_vars

-----------------------------------------------------------------------------
(* Properties *)

\* The variables have their types, and the segment in use exists.
TypeOK ==
    /\ cp \in Checkpoints \cup {None} /\ taking \in Checkpoints \cup {None}
    /\ DOMAIN segs = Ids /\ \A i \in Ids : segs[i] \in Segments \cup {None}
    /\ storage \in {"none", "created", "readable", "writable", "closed"}
    /\ state \in {"initial", "restored", "active"}
    /\ mem \in Seq(Ops) /\ acked \in Seq(Ops)
    /\ seg \in Ids \cup {None} /\ own \in BOOLEAN
    /\ lastid \in 0..(MaxSegment + 1) /\ lastgen \in Nat /\ applied \in 0..MaxOps
    /\ call \in {"none", "restore", "set", "checkpoint"}
    /\ pc \in {"idle", "apply", "new_segment", "init_segment", "use_segment",
               "create_checkpoint", "init_checkpoint", "save_checkpoint", "commit",
               "rename", "sync", "clean"}
    /\ seg # None => segs[seg] # None /\ segs[seg].ok

\* While operations are journalled, a restore would deliver exactly those that
\* are applied: what follows a failed checkpoint, a torn record or a reopening is
\* in files that a restore reaches.
MemoryIsRecoverable == state = "active" /\ pc = "idle" => Recovered = mem

\* At every moment, through failures and restarts, the files hold every operation
\* reported as journalled, and no step takes back what they would deliver.
Log == INSTANCE DurableLog WITH log <- Recovered
Implements == Log!Spec

\* "At every moment in time there exist at least 1 and at most 2 checkpoint files
\* for a storage: one for a consistent checkpoint and/or one for a checkpoint
\* currently being written" (journmmap.h:115): the consistent one is not lost.
OneConsistent == acked # <<>> => Opens
==============================================================================

---------------------------- MODULE RaftLogStore ----------------------------
(***************************************************************************)
(* One member's storage of a Raft group (cluster/store.rs), the group sink *)
(* of the redb store it writes through (store.rs), the queue state machine *)
(* (cluster/queue_group.rs) and the spill segments its bodies are paged to *)
(* (cluster/paging.rs), with a crash between any two steps and the         *)
(* recovery of node.rs paged_queue_store.                                  *)
(*                                                                         *)
(* openraft is external: it calls append, truncate, purge, vote, apply and *)
(* install one at a time (its storage adaptor holds a write lock), runs a  *)
(* snapshot build beside them, truncates only what is not committed and    *)
(* purges only what its current snapshot covers.                           *)
(*                                                                         *)
(* A body is the id of the message it belongs to: the k-th Enqueue of the  *)
(* log is message k on every replica.  Each body is one byte.              *)
(***************************************************************************)
EXTENDS Integers, Sequences, FiniteSets, FiniteSetsExt

CONSTANTS
    Configs,        \* [paged, resident_max, segment_max, max_log, max_lag,
                    \*  max_builds, max_crashes, max_votes, installs]
    Commands        \* the commands proposed to the group

ASSUME ConfigsAssumption ==
    /\ \A c \in Configs : /\ c.resident_max \in Nat
                          /\ c.segment_max \in Nat \ {0}
                          /\ c.max_log \in Nat
    /\ \A c \in Commands : c.op \in {"Enqueue", "Remove", "Requeue"}

VARIABLES
    config,
    hist,        \* the group's log as acknowledged by this member (external)
    committed,   \* how much of it is committed (external)
    voted,       \* the last vote whose save returned (external)
    disk,        \* the redb tables: [log, purged, vote, snap]; while no call
                 \* is under way Inner's log map holds what the table holds
    blobs,       \* snapshot files: name -> payload, or None while torn
    segs,        \* segment files: id -> [data, synced]
    up,          \* the process runs and the group member is open
    mem,         \* Inner: [purged, vote, state, last_applied, snapshot, snapshot_idx]
    spill,       \* paging.rs Inner: [next, current, live, pins, deferred]
    op,          \* the storage call whose sink write is durable, or None
    build,       \* the snapshot being built, or None
    builds, crashes

vars == <<config, hist, committed, voted, disk, blobs, segs, up, mem, spill,
          op, build, builds, crashes>>

None == [none |-> TRUE]     \* Option::None: no other record has its field
Inline == [seg |-> 0, off |-> 0]
Ids(st) == DOMAIN st.messages
Spilled(st) == {id \in Ids(st) : st.messages[id].body # Inline}
EmptyState == [next_msg_id |-> 0, messages |-> <<>>]
FreshSpill == [next |-> 1, current |-> 0, live |-> <<>>, pins |-> 0,
               deferred |-> {}]

Drop(f, k) == [x \in DOMAIN f \ {k} |-> f[x]]
Put(f, k, v) == [x \in DOMAIN f \cup {k} |-> IF x = k THEN v ELSE f[x]]

\* step(step(step(base, 1), 2), 3) for S = {1, 2, 3}
InOrder(step(_, _), base, S) ==
    MapThenFoldSet(LAMBDA n, acc : step(acc, n), base, LAMBDA n : n, Max, S)

-----------------------------------------------------------------------------
(* paging.rs.  w is [st, sp, segs]: the state, the spill and its files.    *)

delete_segment(w, id) ==
    [w EXCEPT !.sp.live = Drop(@, id), !.segs = Drop(@, id)]

\* A segment nothing refers to goes away, once no snapshot build is reading.
Reclaim(w, id) ==
    IF w.sp.pins > 0 THEN [w EXCEPT !.sp.deferred = @ \cup {id}]
    ELSE delete_segment(w, id)

Roll(w) ==
    LET old == w.sp.current
        v == IF old # 0 /\ w.sp.live[old] = 0 THEN Reclaim(w, old) ELSE w
    IN  [v EXCEPT !.sp.current = v.sp.next, !.sp.next = @ + 1,
                  !.sp.live = Put(@, v.sp.next, 0),
                  !.segs = Put(@, v.sp.next, [data |-> <<>>, synced |-> 0])]

append(w, body) ==
    LET full == \/ w.sp.current = 0
                \/ Len(w.segs[w.sp.current].data) >= config.segment_max
        v == IF full THEN Roll(w) ELSE w
    IN  [v EXCEPT !.segs[v.sp.current].data = Append(@, body),
                  !.sp.live[v.sp.current] = @ + 1]

release(w, r) ==
    IF r.seg \notin DOMAIN w.sp.live THEN w
    ELSE LET left == IF w.sp.live[r.seg] = 0 THEN 0 ELSE w.sp.live[r.seg] - 1
             v == [w EXCEPT !.sp.live[r.seg] = left]
         IN  IF left = 0 /\ v.sp.current # r.seg THEN Reclaim(v, r.seg) ELSE v

unpin(w) ==
    LET v == [w EXCEPT !.sp.pins = IF @ = 0 THEN 0 ELSE @ - 1]
        dead == {s \in v.sp.deferred : s \in DOMAIN v.sp.live /\ v.sp.live[s] = 0}
    IN  IF v.sp.pins > 0 THEN v
        ELSE InOrder(delete_segment, [v EXCEPT !.sp.deferred = {}], dead)

spill_live_counts(st, s) ==
    Cardinality({id \in Spilled(st) : st.messages[id].body.seg = s})

set_live(w) ==
    LET counted == [w EXCEPT !.sp.live =
                        [s \in DOMAIN @ |-> spill_live_counts(w.st, s)]]
        dead == {s \in DOMAIN counted.sp.live :
                     counted.sp.live[s] = 0 /\ counted.sp.current # s}
    IN  InOrder(delete_segment, counted, dead)

readable(files, r) == r.seg \in DOMAIN files /\ r.off <= Len(files[r.seg].data)

\* Variant: the segments are not synced before a snapshot refers to them.
sync_none(files) == files

sync_all(files) == [s \in DOMAIN files |->
                       [files[s] EXCEPT !.synced = Len(files[s].data)]]

-----------------------------------------------------------------------------
(* queue_group.rs: the replicated state, applied and restored.             *)

Resident(st) == Cardinality(Ids(st) \ Spilled(st))

\* store_body and the insert of the message it is for.
Stored(w, id, failures) ==
    LET pages == config.paged /\ Resident(w.st) + 1 > config.resident_max
        v == IF pages THEN append(w, id) ELSE w
        ref == IF pages THEN [seg |-> v.sp.current,
                              off |-> Len(v.segs[v.sp.current].data)]
               ELSE Inline
    IN  [v EXCEPT !.st.messages =
            Put(@, id, [failures |-> failures, body |-> ref])]

\* messages.remove and drop_body.
Removed(w, id) ==
    LET v == [w EXCEPT !.st.messages = Drop(@, id)]
        ref == w.st.messages[id].body
    IN  IF ref = Inline THEN v ELSE release(v, ref)

apply(w, cmd) ==
    CASE cmd.op = "Enqueue" ->
            Stored([w EXCEPT !.st.next_msg_id = @ + 1], w.st.next_msg_id + 1, 0)
      [] cmd.op = "Remove" /\ cmd.id \in Ids(w.st) -> Removed(w, cmd.id)
      [] cmd.op = "Requeue" /\ cmd.id \in Ids(w.st) ->
            [w EXCEPT !.st.messages[cmd.id].failures = @ + 1]
      [] OTHER -> w

\* What the state must be after the commands of log, bodies left aside.
Replay(log) ==
    LET one(st, i) == LET cmd == log[i] IN
          CASE cmd.op = "Enqueue" ->
                  [next_msg_id |-> st.next_msg_id + 1,
                   messages |-> Put(st.messages, st.next_msg_id + 1, 0)]
            [] cmd.op = "Remove" ->
                  [st EXCEPT !.messages = Drop(@, cmd.id)]
            [] cmd.op = "Requeue" /\ cmd.id \in Ids(st) ->
                  [st EXCEPT !.messages[cmd.id] = @ + 1]
            [] OTHER -> st
    IN  InOrder(one, EmptyState, DOMAIN log)

Contents(st) == [next_msg_id |-> st.next_msg_id,
                 messages |-> [id \in Ids(st) |-> st.messages[id].failures]]

\* A snapshot's bodies are inline, or a reference into this member's spill.
Portable(st, index) == [index |-> index, st |-> st, own |-> TRUE]

Restorable(w, p) ==
    \A id \in Spilled(p.st) : p.own /\ readable(w.segs, p.st.messages[id].body)

\* restore_snapshot: the old bodies are dropped, then each one is restored;
\* the first that cannot be read ends it with an error.
restore_snapshot(w, p) ==
    LET dropped == InOrder(Removed, w, Ids(w.st))
        one(v, id) ==
            LET m == p.st.messages[id]
            IN  IF m.body = Inline THEN Stored(v, id, m.failures)
                ELSE [v EXCEPT !.st.messages = Put(@, id, m)]
    IN  InOrder(one, [dropped EXCEPT !.st.next_msg_id = p.st.next_msg_id],
                Ids(p.st))

-----------------------------------------------------------------------------
Work == [st |-> mem.state, sp |-> spill, segs |-> segs]
Took(w) == spill' = w.sp /\ segs' = w.segs

Fresh == [purged |-> 0, vote |-> 0, state |-> EmptyState, last_applied |-> 0,
          snapshot |-> None, snapshot_idx |-> 0]

Init ==
    /\ config \in Configs
    /\ hist = <<>> /\ committed = 0 /\ voted = 0
    /\ disk = [log |-> <<>>, purged |-> 0, vote |-> 0, snap |-> None]
    /\ blobs = <<>> /\ segs = <<>>
    /\ up = TRUE
    /\ mem = Fresh /\ spill = FreshSpill
    /\ op = None /\ build = None
    /\ builds = 0 /\ crashes = 0

Idle == up /\ op = None
LastIndex == Len(hist)
external == <<config, builds, crashes>>

\* RaftAppend reaches the disk: the entry at the next index.
AppendDurable ==
    /\ Idle /\ LastIndex < config.max_log
    /\ LastIndex - committed < config.max_lag
    /\ \E cmd \in Commands :
         /\ disk' = [disk EXCEPT !.log = Put(@, LastIndex + 1, cmd)]
         /\ op' = [kind |-> "append", cmd |-> cmd]
    /\ UNCHANGED <<hist, committed, voted, blobs, segs, up, mem, spill, build>>
    /\ UNCHANGED external

\* append_to_log returns: the leader is told the entry is stored.
AppendDone ==
    /\ up /\ op # None /\ op.kind = "append"
    /\ hist' = Append(hist, op.cmd)
    /\ op' = None
    /\ UNCHANGED <<committed, voted, disk, blobs, segs, up, mem, spill, build>>
    /\ UNCHANGED external

\* External: the leader's commit index moves over what is acknowledged.
Commit ==
    /\ committed < LastIndex
    /\ committed' = committed + 1
    /\ UNCHANGED <<hist, voted, disk, blobs, segs, up, mem, spill, op, build>>
    /\ UNCHANGED external

\* delete_conflict_logs_since, which openraft calls above the commit index.
Truncate ==
    /\ Idle /\ committed < LastIndex
    /\ \E since \in committed + 1 .. LastIndex :
         /\ disk' = [disk EXCEPT !.log =
                        [i \in {j \in DOMAIN @ : j < since} |-> @[i]]]
         /\ hist' = SubSeq(hist, 1, since - 1)
    /\ UNCHANGED <<committed, voted, blobs, segs, up, mem, spill, op, build>>
    /\ UNCHANGED external

\* External: openraft purges up to the snapshot it was last given.
PurgeLimit == IF mem.snapshot = None THEN 0 ELSE mem.snapshot.index

\* purge_logs_upto: entries and marker in one batch, then the map.
Purge ==
    /\ Idle
    /\ \E upto \in mem.purged + 1 .. PurgeLimit :
         /\ disk' = [disk EXCEPT !.purged = upto,
                                 !.log = [i \in {j \in DOMAIN @ : j > upto} |-> @[i]]]
         /\ mem' = [mem EXCEPT !.purged = upto]
    /\ UNCHANGED <<hist, committed, voted, blobs, segs, up, spill, op, build>>
    /\ UNCHANGED external

VoteDurable ==
    /\ Idle /\ disk.vote < config.max_votes
    /\ disk' = [disk EXCEPT !.vote = @ + 1]
    /\ op' = [kind |-> "vote"]
    /\ UNCHANGED <<hist, committed, voted, blobs, segs, up, mem, spill, build>>
    /\ UNCHANGED external

VoteDone ==
    /\ up /\ op # None /\ op.kind = "vote"
    /\ mem' = [mem EXCEPT !.vote = disk.vote]
    /\ voted' = disk.vote
    /\ op' = None
    /\ UNCHANGED <<hist, committed, disk, blobs, segs, up, spill, build>>
    /\ UNCHANGED external

\* apply_to_state_machine, under the store's lock.
Apply ==
    /\ Idle /\ mem.last_applied < committed
    /\ LET i == mem.last_applied + 1
           w == apply(Work, disk.log[i])
       IN  /\ i \in DOMAIN disk.log
           /\ mem' = [mem EXCEPT !.state = w.st, !.last_applied = i]
           /\ Took(w)
    /\ UNCHANGED <<hist, committed, voted, disk, blobs, up, op, build>>
    /\ UNCHANGED external

-----------------------------------------------------------------------------
(* build_snapshot, beside the calls above.                                 *)

\* Under the lock: pin the segments, clone the state, name the snapshot.
\* openraft asks for a build once entries were applied since the last one.
Capture ==
    /\ up /\ build = None /\ builds < config.max_builds
    /\ mem.last_applied > PurgeLimit
    /\ op # None => op.kind \notin {"installed", "saved"}
    /\ build' = [pc |-> "captured", n |-> mem.snapshot_idx + 1,
                 payload |-> Portable(mem.state, mem.last_applied)]
    /\ mem' = [mem EXCEPT !.snapshot_idx = @ + 1]
    /\ spill' = [spill EXCEPT !.pins = @ + 1]
    /\ builds' = builds + 1
    /\ UNCHANGED <<config, hist, committed, voted, disk, blobs, segs, up, op,
                   crashes>>

BlobName == <<build.payload.index, build.n>>

\* snapshot_bytes syncs what it refers to; the blob file is then created.
Serialize ==
    /\ up /\ build # None /\ build.pc = "captured"
    /\ segs' = IF Spilled(build.payload.st) # {} THEN sync_all(segs) ELSE segs
    /\ blobs' = IF config.paged THEN Put(blobs, BlobName, None) ELSE blobs
    /\ build' = [build EXCEPT !.pc = "serialized"]
    /\ UNCHANGED <<hist, committed, voted, disk, up, mem, spill, op>>
    /\ UNCHANGED external

\* The blob is on disk; finish_snapshot lets the deferred deletions run.
Written ==
    /\ up /\ build # None /\ build.pc = "serialized"
    /\ blobs' = IF config.paged THEN Put(blobs, BlobName, build.payload)
                ELSE blobs
    /\ LET w == unpin(Work) IN Took(w)
    /\ build' = [build EXCEPT !.pc = "written"]
    /\ UNCHANGED <<hist, committed, voted, disk, up, mem, op>>
    /\ UNCHANGED external

\* RaftSnapshot: the pointer, with the blob inline or by its path.
Pointer(index, n, payload) ==
    [index |-> index, n |-> n,
     inline |-> IF config.paged THEN None ELSE payload]

SaveSnapshot ==
    /\ up /\ build # None /\ build.pc = "written"
    /\ disk' = [disk EXCEPT
                  !.snap = Pointer(build.payload.index, build.n, build.payload)]
    /\ build' = [build EXCEPT !.pc = "saved"]
    /\ UNCHANGED <<hist, committed, voted, blobs, segs, up, mem, spill, op>>
    /\ UNCHANGED external

\* Variant: a snapshot is current as soon as it is built.
BuiltIsCurrent == build.pc \in {"written", "saved"}

Publishable == build.pc = "saved"

Superseded(name) ==
    IF mem.snapshot = None \/ mem.snapshot.name = name THEN blobs
    ELSE Drop(blobs, mem.snapshot.name)

Publish ==
    /\ up /\ build # None /\ Publishable
    /\ blobs' = Superseded(BlobName)
    /\ mem' = [mem EXCEPT !.snapshot = [index |-> build.payload.index,
                                        name |-> BlobName]]
    /\ build' = None
    /\ UNCHANGED <<hist, committed, voted, disk, segs, up, spill, op>>
    /\ UNCHANGED external

-----------------------------------------------------------------------------
(* install_snapshot: the leader's snapshot, one entry past what this       *)
(* member has (openraft truncates the rest first).  LeaderN numbers it.    *)

LeaderN == 1

InstalledBlobs(name, p) == Put(blobs, name, p)

\* The leader kept every body resident: the snapshot carries them all.
Install ==
    /\ Idle /\ build = None /\ config.installs
    /\ committed = LastIndex /\ LastIndex < config.max_log
    /\ \E cmd \in Commands :
         LET k == LastIndex + 1
             led == Replay(Append(hist, cmd))
             st == [led EXCEPT !.messages =
                       [id \in DOMAIN @ |-> [failures |-> @[id], body |-> Inline]]]
             p == [index |-> k, st |-> st, own |-> FALSE]
             w == restore_snapshot(Work, p)
         IN  /\ hist' = Append(hist, cmd)
             /\ committed' = k
             /\ mem' = [mem EXCEPT !.state = w.st, !.last_applied = k,
                           !.snapshot = [index |-> k, name |-> <<k, LeaderN>>]]
             /\ Took(w)
             /\ blobs' = IF config.paged THEN InstalledBlobs(<<k, LeaderN>>, p)
                         ELSE blobs
             /\ op' = [kind |-> "installed", payload |-> p,
                       old |-> mem.snapshot]
    /\ UNCHANGED <<voted, disk, up, build>>
    /\ UNCHANGED external

InstallSaved ==
    /\ up /\ op # None /\ op.kind = "installed"
    /\ disk' = [disk EXCEPT !.snap = Pointer(op.payload.index, LeaderN, op.payload)]
    /\ op' = [op EXCEPT !.kind = "saved"]
    /\ UNCHANGED <<hist, committed, voted, blobs, segs, up, mem, spill, build>>
    /\ UNCHANGED external

InstallDone ==
    /\ up /\ op # None /\ op.kind = "saved"
    /\ blobs' = IF op.old = None THEN blobs ELSE Drop(blobs, op.old.name)
    /\ op' = None
    /\ UNCHANGED <<hist, committed, voted, disk, segs, up, mem, spill, build>>
    /\ UNCHANGED external

\* The leader spilled a body: restore clears the state and stops at the
\* reference it cannot follow; openraft shuts the member down.
InstallRefused ==
    /\ Idle /\ build = None /\ config.installs /\ config.paged
    /\ committed = LastIndex /\ LastIndex < config.max_log
    /\ LET w == InOrder(Removed, Work, Ids(mem.state))
       IN  Took(w)
    /\ up' = FALSE
    /\ crashes < config.max_crashes
    /\ crashes' = crashes + 1
    /\ UNCHANGED <<config, hist, committed, voted, disk, blobs, mem, op, build,
                   builds>>

-----------------------------------------------------------------------------
(* Crash and recovery.                                                     *)

\* Power is lost: what was not synced is gone, and a blob half written is
\* torn.  An installed snapshot whose pointer is not recorded is unknown.
Crash ==
    /\ up /\ crashes < config.max_crashes
    /\ crashes' = crashes + 1
    /\ up' = FALSE /\ op' = None /\ build' = None
    /\ segs' = [s \in DOMAIN segs |->
                  [segs[s] EXCEPT !.data = SubSeq(@, 1, segs[s].synced)]]
    /\ IF op # None /\ op.kind = "installed"
       THEN hist' = SubSeq(hist, 1, Len(hist) - 1) /\ committed' = committed - 1
       ELSE UNCHANGED <<hist, committed>>
    /\ UNCHANGED <<config, voted, disk, blobs, mem, spill, builds>>

SavedPayload ==
    IF config.paged THEN blobs[<<disk.snap.index, disk.snap.n>>]
    ELSE disk.snap.inline

BlobIntact ==
    config.paged => LET name == <<disk.snap.index, disk.snap.n>>
                    IN  name \in DOMAIN blobs /\ blobs[name] # None

RecoveredIdx(snap) == IF snap = None THEN 0 ELSE snap.n

\* Variant: replay starts at the first entry again.
AppliedForgotten(snap) == 0

RecoveredApplied(snap) == IF snap = None THEN 0 ELSE snap.index

\* Spill::open wipes the directory; open_preserving keeps its segments.
Opened(files) ==
    [st |-> EmptyState, segs |-> files,
     sp |-> [FreshSpill EXCEPT
                !.next = 1 + Max(DOMAIN files \cup {0}),
                !.live = [s \in DOMAIN files |-> 0]]]

\* open_group, new_persistent and the seeding of the live counts.  Nothing
\* is opened when the snapshot cannot be read.
Recover ==
    /\ ~up
    /\ LET snap == disk.snap
           kept == IF snap = None THEN <<>> ELSE segs
           w == Opened(kept)
           restored == IF snap = None THEN w ELSE restore_snapshot(w, SavedPayload)
           seeded == set_live(restored)
           covered == IF snap = None THEN 0 ELSE snap.index
           last == Max(DOMAIN disk.log \cup {covered})
       IN  /\ snap # None => BlobIntact /\ Restorable(w, SavedPayload)
           /\ Took(seeded)
           /\ mem' = [purged |-> disk.purged, vote |-> disk.vote,
                      state |-> seeded.st,
                      last_applied |-> RecoveredApplied(snap),
                      snapshot |-> IF snap = None THEN None
                                   ELSE [index |-> snap.index,
                                         name |-> <<snap.index, snap.n>>],
                      snapshot_idx |-> RecoveredIdx(snap)]
           /\ hist' = [i \in 1 .. last |-> IF i \in DOMAIN disk.log
                                           THEN disk.log[i] ELSE hist[i]]
    /\ up' = TRUE
    /\ voted' = disk.vote
    /\ UNCHANGED <<committed, disk, blobs, op, build>>
    /\ UNCHANGED external

Next ==
    \/ AppendDurable \/ AppendDone \/ Commit \/ Truncate \/ Purge
    \/ VoteDurable \/ VoteDone \/ Apply
    \/ Capture \/ Serialize \/ Written \/ SaveSnapshot \/ Publish
    \/ Install \/ InstallSaved \/ InstallDone \/ InstallRefused
    \/ Crash \/ Recover

Spec == Init /\ [][Next]_vars

-----------------------------------------------------------------------------
Refs == [seg : Nat, off : Nat]
IsState(st) ==
    /\ st.next_msg_id \in Nat
    /\ \A id \in Ids(st) : /\ id \in 1 .. st.next_msg_id
                           /\ st.messages[id].failures \in Nat
                           /\ st.messages[id].body \in Refs

\* The variables keep their types: a message's id was handed out by the
\* state that stores it (queue_group.rs apply), the applied index never
\* passes the commit index, the purge marker never passes the applied one.
TypeOK ==
    /\ config \in Configs
    /\ hist \in Seq(Commands) /\ committed \in 0 .. Len(hist)
    /\ IsState(mem.state)
    /\ up => /\ mem.last_applied \in 0 .. committed
             /\ mem.purged \in 0 .. mem.last_applied
    /\ DOMAIN disk.log \subseteq 1 .. config.max_log
    /\ \A s \in DOMAIN segs : segs[s].synced <= Len(segs[s].data) \/ ~up
    /\ up => DOMAIN spill.live = DOMAIN segs
    /\ spill.pins \in 0 .. 1

\* What a storage call has returned for survives a crash at any point
\* (cluster/store.rs: durable before the call returns): each acknowledged
\* entry is in the table or covered by the snapshot the pointer names, and
\* the vote is recorded.  So the log is never purged past what a restart
\* can restore.
AckedDurable ==
    /\ \A i \in 1 .. Len(hist) :
         \/ op # None /\ op.kind = "installed" /\ i = Len(hist)
         \/ disk.snap # None /\ i <= disk.snap.index
         \/ i \in DOMAIN disk.log /\ disk.log[i] = hist[i]
    /\ voted <= disk.vote

\* The recorded snapshot pointer names a blob that is whole: a build never
\* writes over it and nothing deletes it before the next pointer is durable
\* (cluster/store.rs build_snapshot, install_snapshot), so recover_raft
\* never has to refuse.
PointerIntact == disk.snap # None => BlobIntact

\* What was acknowledged can be recovered, at whatever step the member
\* crashes: the pointer's blob is whole and the log continues behind it.
Recoverable == AckedDurable /\ PointerIntact

\* After any number of crashes, recoveries and installs the state is what
\* replaying the group's log up to the applied index gives: no entry is
\* applied twice and none is skipped.
\* (And the state is well typed.)
StateIsReplay ==
    /\ TypeOK
    /\ up => Contents(mem.state) = Replay(SubSeq(hist, 1, mem.last_applied))

Holds(r, id) == r.seg \in DOMAIN segs /\ r.off \in DOMAIN segs[r.seg].data
                    /\ segs[r.seg].data[r.off] = id

\* Every spilled body can be read back and is the body of its own message
\* (paging.rs: a segment goes away only when nothing in it is live).
BodiesIntact ==
    up => \A id \in Spilled(mem.state) : Holds(mem.state.messages[id].body, id)

\* A segment's live count is the number of stored messages that refer to
\* it, and a segment nothing refers to is the one being written or waits
\* for a snapshot build to end: paged space is always given back.
SegmentsAccounted ==
    up => \A s \in DOMAIN segs :
             /\ spill.live[s] = spill_live_counts(mem.state, s)
             /\ spill.live[s] = 0 => \/ s = spill.current
                                     \/ s \in spill.deferred /\ spill.pins > 0

\* A body that the recorded snapshot and the state both refer to is synced:
\* once the log is purged behind the snapshot it is the only copy
\* (queue_group.rs snapshot_bytes, paging.rs sync_all).
SnapshotBodiesSynced ==
    up /\ disk.snap # None =>
        \A id \in Ids(SavedPayload.st) \cap Spilled(mem.state) :
            LET r == mem.state.messages[id].body
            IN  SavedPayload.own /\ r = SavedPayload.st.messages[id].body
                    => r.off <= segs[r.seg].synced

\* Paging loses no body and no space, whatever snapshots are under way:
\* spilled bodies are readable, segments accounted for, and what only a
\* snapshot still refers to is synced.
PagingIntact == BodiesIntact /\ SegmentsAccounted /\ SnapshotBodiesSynced
=============================================================================

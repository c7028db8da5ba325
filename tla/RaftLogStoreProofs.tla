------------------------- MODULE RaftLogStoreProofs -------------------------
(***************************************************************************)
(* Proofs about RaftLogStore, for any commands, any configuration and any  *)
(* number of entries, snapshots, installs and crashes: what a storage call *)
(* has returned for can be recovered, at whatever step the member crashes. *)
(*                                                                         *)
(* The argument relates the log table, the snapshot pointer, the snapshot  *)
(* Inner holds and the call or build under way.  The replicated state and  *)
(* its bodies are opaque here: no step below looks at them.                *)
(***************************************************************************)
EXTENDS RaftLogStore, TLAPS

At(kind) == op # None /\ op.kind = kind
Building(pcs) == build # None /\ build.pc \in pcs

\* the fields the records have; a closed member has no call under way
Shapes ==
    /\ DOMAIN mem = {"purged", "vote", "state", "last_applied", "snapshot",
                     "snapshot_idx"}
    /\ DOMAIN disk = {"log", "purged", "vote", "snap"}
    /\ op # None =>
         \/ DOMAIN op = {"kind", "cmd"} /\ op.kind = "append"
         \/ DOMAIN op = {"kind"} /\ op.kind = "vote"
         \/ DOMAIN op = {"kind", "payload", "old"} /\ op.kind \in {"installed", "saved"}
    /\ build # None =>
         /\ DOMAIN build = {"pc", "n", "payload"} /\ build.payload # None
         /\ build.pc \in {"captured", "serialized", "written", "saved"}
    /\ ~up => op = None /\ build = None
    /\ At("installed") \/ At("saved") => build = None

Numbers ==
    /\ hist \in Seq(Commands) /\ committed \in Nat /\ committed <= Len(hist)
    /\ voted \in Int /\ disk.vote \in Int
    /\ mem.last_applied \in Nat
    /\ up => mem.last_applied <= committed

\* The table holds nothing past the log but the entry of an append that has
\* not returned, or had not when the member stopped.
LogTable ==
    /\ \A i \in DOMAIN disk.log : /\ i \in Nat \ {0} /\ disk.log[i] \in Commands
                                  /\ i <= Len(hist) + 1
                                  /\ i = Len(hist) + 1 => At("append") \/ ~up
                                  /\ At("installed") => i < Len(hist)
    /\ At("append") => /\ Len(hist) + 1 \in DOMAIN disk.log
                       /\ disk.log[Len(hist) + 1] = op.cmd

\* The recorded pointer covers committed entries only.
SnapCommitted ==
    disk.snap # None => /\ disk.snap.index \in Nat /\ disk.snap.index <= committed
                        /\ At("installed") => disk.snap.index < committed

\* The snapshot that Inner holds is the recorded one, but for a build or an
\* install whose other half is still to come.
Held ==
    /\ mem.snapshot # None => /\ mem.snapshot.index \in Nat
                              /\ mem.snapshot.name[1] = mem.snapshot.index
    /\ up /\ ~At("installed") /\ mem.snapshot # None =>
          disk.snap # None /\ mem.snapshot.index <= disk.snap.index
    /\ up /\ ~At("installed") /\ ~Building({"saved"}) /\ disk.snap # None =>
          mem.snapshot # None /\ disk.snap.index <= mem.snapshot.index

\* A build is ahead of the recorded pointer until it moves it, and has its
\* blob whole before it does.
Built ==
    /\ build # None => build.payload.index \in Nat /\ build.payload.index <= committed
    /\ Building({"captured", "serialized", "written"}) /\ disk.snap # None =>
          disk.snap.index < build.payload.index
    /\ Building({"written", "saved"}) /\ config.paged =>
          BlobName \in DOMAIN blobs /\ blobs[BlobName] # None
    /\ Building({"saved"}) => /\ disk.snap # None
                              /\ disk.snap.index = build.payload.index
                              /\ disk.snap.n = build.n

\* An install has its blob whole before it moves the pointer, and drops only
\* an older one.
Installed ==
    /\ At("installed") \/ At("saved") =>
         /\ op.payload.index \in Nat \ {0}
         /\ mem.snapshot # None /\ mem.snapshot.index = op.payload.index
         /\ op.old # None => op.old.name[1] < op.payload.index
    /\ At("installed") =>
         /\ op.payload.index = Len(hist) /\ committed = Len(hist)
         /\ config.paged => /\ <<op.payload.index, LeaderN>> \in DOMAIN blobs
                            /\ blobs[<<op.payload.index, LeaderN>>] # None
    /\ At("saved") => /\ disk.snap # None /\ disk.snap.n = LeaderN
                      /\ disk.snap.index = op.payload.index

IInv ==
    /\ Shapes /\ Numbers /\ LogTable /\ SnapCommitted /\ Held /\ Built
    /\ Installed /\ AckedDurable /\ PointerIntact

-----------------------------------------------------------------------------
\* A function on an initial interval is a sequence: what append makes of the log.
LEMMA FuncIsSeq ==
    ASSUME NEW S, NEW n \in Nat, NEW f \in [1 .. n -> S]
    PROVE  f \in Seq(S) /\ Len(f) = n
<1>1. f = [i \in 1 .. n |-> f[i]] /\ \A i \in 1 .. n : f[i] \in S
  BY Zenon
<1>2. [i \in 1 .. n |-> f[i]] \in Seq(S) /\ Len([i \in 1 .. n |-> f[i]]) = n
  BY <1>1
<1> QED
  BY Zenon, <1>1, <1>2

\* A new member has nothing to recover.
LEMMA InitIInv == Init => IInv
<1> SUFFICES ASSUME Init PROVE IInv
  BY Zenon
<1>0. /\ hist = <<>> /\ committed = 0 /\ voted = 0 /\ up /\ op = None /\ build = None
      /\ disk.log = <<>> /\ disk.vote = 0 /\ disk.snap = None
      /\ DOMAIN disk = {"log", "purged", "vote", "snap"}
      /\ mem.last_applied = 0 /\ mem.snapshot = None
      /\ DOMAIN mem = {"purged", "vote", "state", "last_applied", "snapshot", "snapshot_idx"}
  BY Zenon DEF Init, Fresh
<1>1. Shapes /\ Numbers
  BY <1>0 DEF Shapes, Numbers, At
<1>2. LogTable /\ AckedDurable
  BY <1>0 DEF LogTable, AckedDurable, At
<1>3. SnapCommitted /\ Held /\ PointerIntact
  BY Zenon, <1>0 DEF SnapCommitted, Held, PointerIntact
<1>4. Built /\ Installed
  BY Zenon, <1>0 DEF Built, Installed, At, Building
<1> QED
  BY Zenon, <1>1, <1>2, <1>3, <1>4 DEF IInv

-----------------------------------------------------------------------------
(* The log and the vote. *)

\* The entry is in the table before the append returns.
LEMMA StepAppendDurable ==
    ASSUME IInv, AppendDurable
    PROVE  IInv'
<1> PICK cmd \in Commands : /\ disk' = [disk EXCEPT !.log = Put(@, LastIndex + 1, cmd)]
                            /\ op' = [kind |-> "append", cmd |-> cmd]
  BY Zenon DEF AppendDurable
<1>0. /\ up /\ op = None /\ op' # None /\ op'.kind = "append" /\ op'.cmd = cmd
      /\ DOMAIN op' = {"kind", "cmd"}
      /\ DOMAIN disk' = {"log", "purged", "vote", "snap"}
      /\ disk'.log = Put(disk.log, Len(hist) + 1, cmd)
      /\ disk'.vote = disk.vote /\ disk'.snap = disk.snap
      /\ UNCHANGED <<config, hist, committed, voted, blobs, up, mem, build>>
  BY Zenon DEF AppendDurable, Idle, external, LastIndex, IInv, Shapes, None
<1>1. Shapes'
  BY Zenon, <1>0 DEF IInv, Shapes, At
<1>2. Numbers'
  BY Zenon, <1>0 DEF IInv, Numbers
<1>3. LogTable'
  BY <1>0 DEF IInv, LogTable, At, Put, Numbers
<1>4. SnapCommitted'
  BY Zenon, <1>0 DEF IInv, SnapCommitted, At
<1>5. Held'
  BY Zenon, <1>0 DEF IInv, Held, At, Building
<1>6. Built'
  BY Zenon, <1>0 DEF IInv, Built, Building, BlobName
<1>7. Installed'
  BY Zenon, <1>0 DEF IInv, Installed, At
<1>8. AckedDurable'
  BY SMTT(30), <1>0 DEF IInv, AckedDurable, Put, Numbers
<1>9. PointerIntact'
  BY Zenon, <1>0 DEF IInv, PointerIntact, BlobIntact
<1> QED
  BY Zenon, <1>1, <1>2, <1>3, <1>4, <1>5, <1>6, <1>7, <1>8, <1>9 DEF IInv

\* The append returns: its entry counts as acknowledged.
LEMMA StepAppendDone ==
    ASSUME IInv, AppendDone
    PROVE  IInv'
<1>0. /\ up /\ op # None /\ op.kind = "append" /\ op' = None
      /\ hist' = Append(hist, op.cmd)
      /\ UNCHANGED <<config, committed, voted, disk, blobs, up, mem, build>>
  BY Zenon DEF AppendDone, external
<1>a. /\ Len(hist) \in Nat /\ Len(hist') = Len(hist) + 1
      /\ \A i \in 1..Len(hist) : hist'[i] = hist[i]
      /\ hist'[Len(hist) + 1] = op.cmd /\ hist' \in Seq(Commands)
  BY <1>0 DEF IInv, Numbers, LogTable, At
<1>1. Shapes'
  BY Zenon, <1>0 DEF IInv, Shapes, At
<1>2. Numbers'
  BY <1>0, <1>a DEF IInv, Numbers
<1>3. LogTable'
  BY <1>0, <1>a DEF IInv, LogTable, At
<1>4. SnapCommitted'
  BY Zenon, <1>0 DEF IInv, SnapCommitted, At
<1>5. Held'
  BY Zenon, <1>0 DEF IInv, Held, At, Building
<1>6. Built'
  BY Zenon, <1>0 DEF IInv, Built, Building, BlobName
<1>7. Installed'
  BY Zenon, <1>0 DEF IInv, Installed, At
<1>8. AckedDurable'
  BY <1>0, <1>a DEF IInv, AckedDurable, LogTable, At, Numbers
<1>9. PointerIntact'
  BY Zenon, <1>0 DEF IInv, PointerIntact, BlobIntact
<1> QED
  BY Zenon, <1>1, <1>2, <1>3, <1>4, <1>5, <1>6, <1>7, <1>8, <1>9 DEF IInv

\* A vote is recorded before its save returns.
LEMMA StepVoteDurable ==
    ASSUME IInv, VoteDurable
    PROVE  IInv'
<1>0. /\ up /\ op = None /\ op' # None /\ op'.kind = "vote" /\ DOMAIN op' = {"kind"}
      /\ DOMAIN disk' = {"log", "purged", "vote", "snap"}
      /\ disk'.log = disk.log /\ disk'.snap = disk.snap /\ disk'.vote = disk.vote + 1
      /\ UNCHANGED <<config, hist, committed, voted, blobs, up, mem, build>>
  BY Zenon DEF VoteDurable, Idle, external, IInv, Shapes, None
<1>1. Shapes'
  BY Zenon, <1>0 DEF IInv, Shapes, At
<1>2. Numbers'
  BY <1>0 DEF IInv, Numbers
<1>3. LogTable'
  BY Zenon, <1>0 DEF IInv, LogTable, At
<1>4. SnapCommitted'
  BY Zenon, <1>0 DEF IInv, SnapCommitted, At
<1>5. Held'
  BY Zenon, <1>0 DEF IInv, Held, At, Building
<1>6. Built'
  BY Zenon, <1>0 DEF IInv, Built, Building, BlobName
<1>7. Installed'
  BY Zenon, <1>0 DEF IInv, Installed, At
<1>8. AckedDurable'
  BY <1>0 DEF IInv, AckedDurable, Numbers
<1>9. PointerIntact'
  BY Zenon, <1>0 DEF IInv, PointerIntact, BlobIntact
<1> QED
  BY Zenon, <1>1, <1>2, <1>3, <1>4, <1>5, <1>6, <1>7, <1>8, <1>9 DEF IInv

\* The save of the vote returns.
LEMMA StepVoteDone ==
    ASSUME IInv, VoteDone
    PROVE  IInv'
<1>0. /\ up /\ op # None /\ op.kind = "vote" /\ op' = None /\ voted' = disk.vote
      /\ DOMAIN mem' = DOMAIN mem
      /\ mem'.last_applied = mem.last_applied
      /\ mem'.snapshot = mem.snapshot
      /\ UNCHANGED <<config, hist, committed, disk, blobs, up, build>>
  BY Zenon DEF VoteDone, external, IInv, Shapes
<1>1. Shapes'
  BY Zenon, <1>0 DEF IInv, Shapes, At
<1>2. Numbers'
  BY Zenon, <1>0 DEF IInv, Numbers
<1>3. LogTable'
  BY Zenon, <1>0 DEF IInv, LogTable, At
<1>4. SnapCommitted'
  BY Zenon, <1>0 DEF IInv, SnapCommitted, At
<1>5. Held'
  BY Zenon, <1>0 DEF IInv, Held, At, Building
<1>6. Built'
  BY Zenon, <1>0 DEF IInv, Built, Building, BlobName
<1>7. Installed'
  BY Zenon, <1>0 DEF IInv, Installed, At
<1>8. AckedDurable'
  BY <1>0 DEF IInv, AckedDurable, Numbers
<1>9. PointerIntact'
  BY Zenon, <1>0 DEF IInv, PointerIntact, BlobIntact
<1> QED
  BY Zenon, <1>1, <1>2, <1>3, <1>4, <1>5, <1>6, <1>7, <1>8, <1>9 DEF IInv

\* The commit index moves over acknowledged entries.
LEMMA StepCommit ==
    ASSUME IInv, Commit
    PROVE  IInv'
<1>0. /\ committed < Len(hist) /\ committed' = committed + 1 /\ committed \in Nat
      /\ Len(hist) \in Nat
      /\ UNCHANGED <<config, hist, voted, disk, blobs, up, mem, op, build>>
  BY DEF Commit, external, LastIndex, IInv, Numbers
<1>1. Shapes'
  BY Zenon, <1>0 DEF IInv, Shapes, At
<1>2. Numbers'
  BY <1>0 DEF IInv, Numbers
<1>3. LogTable'
  BY Zenon, <1>0 DEF IInv, LogTable, At
<1>4. SnapCommitted'
  BY <1>0 DEF IInv, SnapCommitted, At
<1>5. Held'
  BY Zenon, <1>0 DEF IInv, Held, At, Building
<1>6. Built'
  BY <1>0 DEF IInv, Built, Building, BlobName
<1>7. Installed'
  BY <1>0 DEF IInv, Installed, At
<1>8. AckedDurable'
  BY Zenon, <1>0 DEF IInv, AckedDurable
<1>9. PointerIntact'
  BY Zenon, <1>0 DEF IInv, PointerIntact, BlobIntact
<1> QED
  BY Zenon, <1>1, <1>2, <1>3, <1>4, <1>5, <1>6, <1>7, <1>8, <1>9 DEF IInv

\* Only what is not committed is truncated, in the table and the log alike.
LEMMA StepTruncate ==
    ASSUME IInv, Truncate
    PROVE  IInv'
<1> PICK since \in committed + 1 .. LastIndex :
        /\ disk' = [disk EXCEPT !.log = [i \in {j \in DOMAIN @ : j < since} |-> @[i]]]
        /\ hist' = SubSeq(hist, 1, since - 1)
  BY Zenon DEF Truncate
<1>0. /\ up /\ op = None
      /\ DOMAIN disk' = {"log", "purged", "vote", "snap"}
      /\ disk'.log = [i \in {j \in DOMAIN disk.log : j < since} |-> disk.log[i]]
      /\ disk'.snap = disk.snap /\ disk'.vote = disk.vote
      /\ UNCHANGED <<config, committed, voted, blobs, up, mem, op, build>>
  BY ZenonT(30) DEF Truncate, Idle, external, IInv, Shapes
<1>a. /\ since \in Int /\ since > committed /\ since <= Len(hist) /\ Len(hist) \in Nat
      /\ Len(hist') = since - 1 /\ \A i \in 1 .. since - 1 : hist'[i] = hist[i]
      /\ hist' \in Seq(Commands) /\ committed \in Nat
  BY SMTT(30) DEF IInv, Numbers, LastIndex
<1>1. Shapes'
  BY Zenon, <1>0 DEF IInv, Shapes, At
<1>2. Numbers'
  BY SMTT(30), <1>0, <1>a DEF IInv, Numbers
<1>3. LogTable'
  BY <1>0, <1>a DEF IInv, LogTable, At
<1>4. SnapCommitted'
  BY Zenon, <1>0, <1>a DEF IInv, SnapCommitted, At
<1>5. Held'
  BY Zenon, <1>0 DEF IInv, Held, At, Building
<1>6. Built'
  BY Zenon, <1>0 DEF IInv, Built, Building, BlobName
<1>7. Installed'
  BY Zenon, <1>0, <1>a DEF IInv, Installed, At
<1>8. AckedDurable'
  BY SMTT(30), <1>0, <1>a DEF IInv, AckedDurable
<1>9. PointerIntact'
  BY Zenon, <1>0 DEF IInv, PointerIntact, BlobIntact
<1> QED
  BY Zenon, <1>1, <1>2, <1>3, <1>4, <1>5, <1>6, <1>7, <1>8, <1>9 DEF IInv

\* The log is purged up to a snapshot that the recorded pointer covers.
LEMMA StepPurge ==
    ASSUME IInv, Purge
    PROVE  IInv'
<1> PICK upto \in mem.purged + 1 .. PurgeLimit :
        /\ disk' = [disk EXCEPT !.purged = upto,
                                !.log = [i \in {j \in DOMAIN @ : j > upto} |-> @[i]]]
        /\ mem' = [mem EXCEPT !.purged = upto]
  BY Zenon DEF Purge
<1>0. /\ up /\ op = None
      /\ DOMAIN disk' = {"log", "purged", "vote", "snap"}
      /\ disk'.log = [i \in {j \in DOMAIN disk.log : j > upto} |-> disk.log[i]]
      /\ disk'.snap = disk.snap /\ disk'.vote = disk.vote
      /\ DOMAIN mem' = DOMAIN mem
      /\ mem'.last_applied = mem.last_applied /\ mem'.snapshot = mem.snapshot
      /\ UNCHANGED <<config, hist, committed, voted, blobs, up, op, build>>
  BY Zenon DEF Purge, Idle, external, IInv, Shapes
<1>a. /\ upto \in Int
      /\ upto <= 0 \/ (disk.snap # None /\ disk.snap.index \in Int /\ upto <= disk.snap.index)
  BY <1>0 DEF IInv, Numbers, PurgeLimit, Held, SnapCommitted, At
<1>1. Shapes'
  BY Zenon, <1>0 DEF IInv, Shapes, At
<1>2. Numbers'
  BY Zenon, <1>0, <1>a DEF IInv, Numbers
<1>3. LogTable'
  BY <1>0, <1>a DEF IInv, LogTable, At
<1>4. SnapCommitted'
  BY Zenon, <1>0 DEF IInv, SnapCommitted, At
<1>5. Held'
  BY Zenon, <1>0 DEF IInv, Held, At, Building
<1>6. Built'
  BY Zenon, <1>0 DEF IInv, Built, Building, BlobName
<1>7. Installed'
  BY Zenon, <1>0 DEF IInv, Installed, At
<1>8. AckedDurable'
  BY <1>0, <1>a DEF IInv, AckedDurable, Numbers, LogTable
<1>9. PointerIntact'
  BY Zenon, <1>0 DEF IInv, PointerIntact, BlobIntact
<1> QED
  BY Zenon, <1>1, <1>2, <1>3, <1>4, <1>5, <1>6, <1>7, <1>8, <1>9 DEF IInv

\* An entry is applied; the log is not touched.
LEMMA StepApply ==
    ASSUME IInv, Apply
    PROVE  IInv'
<1>0. /\ up /\ op = None /\ mem.last_applied < committed
      /\ DOMAIN mem' = DOMAIN mem /\ mem'.last_applied = mem.last_applied + 1 /\ mem'.snapshot = mem.snapshot
      /\ UNCHANGED <<config, hist, committed, voted, disk, blobs, up, op, build>>
  <2>1. PICK s : mem' = [mem EXCEPT !.state = s, !.last_applied = mem.last_applied + 1]
    BY Zenon DEF Apply
  <2> QED
    BY Zenon, <2>1 DEF Apply, Idle, external, IInv, Shapes
<1>1. Shapes'
  BY Zenon, <1>0 DEF IInv, Shapes, At
<1>2. Numbers'
  BY <1>0 DEF IInv, Numbers
<1>3. LogTable'
  BY Zenon, <1>0 DEF IInv, LogTable, At
<1>4. SnapCommitted'
  BY Zenon, <1>0 DEF IInv, SnapCommitted, At
<1>5. Held'
  BY Zenon, <1>0 DEF IInv, Held, At, Building
<1>6. Built'
  BY Zenon, <1>0 DEF IInv, Built, Building, BlobName
<1>7. Installed'
  BY Zenon, <1>0 DEF IInv, Installed, At
<1>8. AckedDurable'
  BY Zenon, <1>0 DEF IInv, AckedDurable
<1>9. PointerIntact'
  BY <1>0 DEF IInv, PointerIntact, BlobIntact
<1> QED
  BY Zenon, <1>1, <1>2, <1>3, <1>4, <1>5, <1>6, <1>7, <1>8, <1>9 DEF IInv

-----------------------------------------------------------------------------
(* A snapshot is built. *)

\* A build starts from what is applied past the recorded pointer.
LEMMA StepCapture ==
    ASSUME IInv, Capture
    PROVE  IInv'
<1>0. /\ up /\ build = None /\ mem.last_applied > PurgeLimit
      /\ ~At("installed") /\ ~At("saved")
      /\ build' # None /\ DOMAIN build' = {"pc", "n", "payload"}
      /\ build'.pc = "captured" /\ build'.payload # None
      /\ build'.payload.index = mem.last_applied
      /\ DOMAIN mem' = DOMAIN mem /\ mem'.last_applied = mem.last_applied /\ mem'.snapshot = mem.snapshot
      /\ UNCHANGED <<config, hist, committed, voted, disk, blobs, up, op>>
  BY Zenon DEF Capture, Portable, At, None, IInv, Shapes
<1>a. disk.snap # None => disk.snap.index < mem.last_applied
  BY <1>0 DEF IInv, Held, Building, PurgeLimit, SnapCommitted, Numbers
<1>1. Shapes'
  BY Zenon, <1>0 DEF IInv, Shapes, At
<1>2. Numbers'
  BY Zenon, <1>0 DEF IInv, Numbers
<1>3. LogTable'
  BY Zenon, <1>0 DEF IInv, LogTable, At
<1>4. SnapCommitted'
  BY Zenon, <1>0 DEF IInv, SnapCommitted, At
<1>5. Held'
  BY Zenon, <1>0 DEF IInv, Held, At, Building
<1>6. Built'
  BY Zenon, <1>0, <1>a DEF IInv, Built, Building, BlobName, Numbers
<1>7. Installed'
  BY Zenon, <1>0 DEF IInv, Installed, At
<1>8. AckedDurable'
  BY <1>0 DEF IInv, AckedDurable
<1>9. PointerIntact'
  BY Zenon, <1>0 DEF IInv, PointerIntact, BlobIntact
<1> QED
  BY Zenon, <1>1, <1>2, <1>3, <1>4, <1>5, <1>6, <1>7, <1>8, <1>9 DEF IInv

\* The blob file is created beside the one the recorded pointer names.
LEMMA StepSerialize ==
    ASSUME IInv, Serialize
    PROVE  IInv'
<1>0. /\ up /\ build # None /\ build.pc = "captured"
      /\ blobs' = IF config.paged THEN Put(blobs, BlobName, None) ELSE blobs
      /\ build' # None /\ DOMAIN build' = {"pc", "n", "payload"}
      /\ build'.pc = "serialized" /\ build'.n = build.n /\ build'.payload = build.payload
      /\ UNCHANGED <<config, hist, committed, voted, disk, up, mem, op>>
  BY Zenon DEF Serialize, external, None, IInv, Shapes
<1>a. disk.snap # None => <<disk.snap.index, disk.snap.n>> # BlobName
  BY <1>0 DEF IInv, Built, Building, BlobName, SnapCommitted
<1>1. Shapes'
  BY Zenon, <1>0 DEF IInv, Shapes, At
<1>2. Numbers'
  BY Zenon, <1>0 DEF IInv, Numbers
<1>3. LogTable'
  BY Zenon, <1>0 DEF IInv, LogTable, At
<1>4. SnapCommitted'
  BY Zenon, <1>0 DEF IInv, SnapCommitted, At
<1>5. Held'
  BY Zenon, <1>0 DEF IInv, Held, At, Building
<1>6. Built'
  BY Zenon, <1>0 DEF IInv, Built, Building, BlobName
<1>7. Installed'
  BY Zenon, <1>0 DEF IInv, Installed, At, Shapes
<1>8. AckedDurable'
  BY <1>0 DEF IInv, AckedDurable
<1>9. PointerIntact'
  BY Zenon, <1>0, <1>a DEF IInv, PointerIntact, BlobIntact, Put
<1> QED
  BY Zenon, <1>1, <1>2, <1>3, <1>4, <1>5, <1>6, <1>7, <1>8, <1>9 DEF IInv

\* The blob is whole.
LEMMA StepWritten ==
    ASSUME IInv, Written
    PROVE  IInv'
<1>0. /\ up /\ build # None /\ build.pc = "serialized"
      /\ blobs' = IF config.paged THEN Put(blobs, BlobName, build.payload) ELSE blobs
      /\ build' # None /\ DOMAIN build' = {"pc", "n", "payload"}
      /\ build'.pc = "written" /\ build'.n = build.n /\ build'.payload = build.payload
      /\ UNCHANGED <<config, hist, committed, voted, disk, up, mem, op>>
  BY Zenon DEF Written, external, None, IInv, Shapes
<1>a. build.payload # None
  BY Zenon, <1>0 DEF IInv, Shapes
<1>1. Shapes'
  BY Zenon, <1>0 DEF IInv, Shapes, At
<1>2. Numbers'
  BY Zenon, <1>0 DEF IInv, Numbers
<1>3. LogTable'
  BY Zenon, <1>0 DEF IInv, LogTable, At
<1>4. SnapCommitted'
  BY Zenon, <1>0 DEF IInv, SnapCommitted, At
<1>5. Held'
  BY Zenon, <1>0 DEF IInv, Held, At, Building
<1>6. Built'
  BY Zenon, <1>0, <1>a DEF IInv, Built, Building, BlobName, Put
<1>7. Installed'
  BY Zenon, <1>0 DEF IInv, Installed, At, Shapes
<1>8. AckedDurable'
  BY <1>0 DEF IInv, AckedDurable
<1>9. PointerIntact'
  BY Zenon, <1>0, <1>a DEF IInv, PointerIntact, BlobIntact, Put
<1> QED
  BY Zenon, <1>1, <1>2, <1>3, <1>4, <1>5, <1>6, <1>7, <1>8, <1>9 DEF IInv

\* The pointer moves to the blob that was built.
LEMMA StepSaveSnapshot ==
    ASSUME IInv, SaveSnapshot
    PROVE  IInv'
<1>0. /\ up /\ build # None /\ build.pc = "written"
      /\ DOMAIN disk' = {"log", "purged", "vote", "snap"}
      /\ disk'.log = disk.log /\ disk'.vote = disk.vote
      /\ disk'.snap # None /\ disk'.snap.index = build.payload.index
      /\ disk'.snap.n = build.n
      /\ build' # None /\ DOMAIN build' = {"pc", "n", "payload"}
      /\ build'.pc = "saved" /\ build'.n = build.n /\ build'.payload = build.payload
      /\ UNCHANGED <<config, hist, committed, voted, blobs, up, mem, op>>
  BY Zenon DEF SaveSnapshot, external, Pointer, None, IInv, Shapes
<1>a. /\ ~At("installed") /\ ~At("saved")
      /\ build.payload.index \in Nat /\ build.payload.index <= committed
      /\ disk.snap # None => disk.snap.index \in Int /\ disk.snap.index < build.payload.index
  BY <1>0 DEF IInv, Shapes, Built, Building, SnapCommitted
<1>1. Shapes'
  BY Zenon, <1>0 DEF IInv, Shapes, At
<1>2. Numbers'
  BY Zenon, <1>0 DEF IInv, Numbers
<1>3. LogTable'
  BY <1>0 DEF IInv, LogTable, At
<1>4. SnapCommitted'
  BY Zenon, <1>0, <1>a DEF IInv, SnapCommitted, At
<1>5. Held'
  BY <1>0, <1>a DEF IInv, Held, At, Building
<1>6. Built'
  BY Zenon, <1>0, <1>a DEF IInv, Built, Building, BlobName
<1>7. Installed'
  BY Zenon, <1>0, <1>a DEF IInv, Installed, At
<1>8. AckedDurable'
  BY SMTT(30), <1>0, <1>a DEF IInv, AckedDurable, Numbers, At
<1>9. PointerIntact'
  BY Zenon, <1>0 DEF IInv, PointerIntact, BlobIntact, Built, Building, BlobName
<1> QED
  BY Zenon, <1>1, <1>2, <1>3, <1>4, <1>5, <1>6, <1>7, <1>8, <1>9 DEF IInv

\* The build ends: the snapshot it superseded goes away, never the recorded one.
LEMMA StepPublish ==
    ASSUME IInv, Publish
    PROVE  IInv'
<1>0. /\ up /\ build # None /\ build.pc = "saved" /\ build' = None
      /\ blobs' = Superseded(BlobName)
      /\ DOMAIN mem' = DOMAIN mem /\ mem'.last_applied = mem.last_applied
      /\ mem'.snapshot # None /\ mem'.snapshot.index = build.payload.index
      /\ mem'.snapshot.name = BlobName
      /\ UNCHANGED <<config, hist, committed, voted, disk, up, op>>
  BY Zenon DEF Publish, Publishable, external, None, IInv, Shapes
<1>a. /\ ~At("installed") /\ ~At("saved") /\ build.payload.index \in Nat
      /\ disk.snap # None /\ disk.snap.index = build.payload.index /\ disk.snap.n = build.n
  BY Zenon, <1>0 DEF IInv, Shapes, Built, Building
<1>b. BlobName \in DOMAIN blobs => BlobName \in DOMAIN blobs' /\ blobs'[BlobName] = blobs[BlobName]
  BY Zenon, <1>0 DEF Superseded, Drop
<1>1. Shapes'
  BY Zenon, <1>0 DEF IInv, Shapes, At
<1>2. Numbers'
  BY Zenon, <1>0 DEF IInv, Numbers
<1>3. LogTable'
  BY Zenon, <1>0 DEF IInv, LogTable, At
<1>4. SnapCommitted'
  BY Zenon, <1>0 DEF IInv, SnapCommitted, At
<1>5. Held'
  BY <1>0, <1>a DEF IInv, Held, At, Building, BlobName
<1>6. Built'
  BY Zenon, <1>0 DEF IInv, Built, Building, BlobName
<1>7. Installed'
  BY Zenon, <1>0, <1>a DEF IInv, Installed, At
<1>8. AckedDurable'
  BY Zenon, <1>0 DEF IInv, AckedDurable
<1>9. PointerIntact'
  BY <1>0, <1>a, <1>b DEF IInv, PointerIntact, BlobIntact, BlobName
<1> QED
  BY Zenon, <1>1, <1>2, <1>3, <1>4, <1>5, <1>6, <1>7, <1>8, <1>9 DEF IInv

-----------------------------------------------------------------------------
(* A snapshot is installed. *)

\* The state and the blob are in place; the pointer is not yet.
LEMMA StepInstall ==
    ASSUME IInv, Install
    PROVE  IInv'
<1>k. PICK k : k = LastIndex + 1
  BY Zenon
<1>l. PICK cmd \in Commands : \E st, s :
        /\ hist' = Append(hist, cmd) /\ committed' = LastIndex + 1
        /\ mem' = [mem EXCEPT !.state = s, !.last_applied = LastIndex + 1,
                      !.snapshot = [index |-> LastIndex + 1, name |-> <<LastIndex + 1, LeaderN>>]]
        /\ blobs' = IF config.paged
                    THEN InstalledBlobs(<<LastIndex + 1, LeaderN>>,
                                        [index |-> LastIndex + 1, st |-> st, own |-> FALSE])
                    ELSE blobs
        /\ op' = [kind |-> "installed",
                  payload |-> [index |-> LastIndex + 1, st |-> st, own |-> FALSE],
                  old |-> mem.snapshot]
  BY Zenon DEF Install
<1>p. PICK p, s :
        /\ DOMAIN p = {"index", "st", "own"} /\ p.index = k
        /\ hist' = Append(hist, cmd) /\ committed' = k
        /\ mem' = [mem EXCEPT !.state = s, !.last_applied = k,
                             !.snapshot = [index |-> k, name |-> <<k, LeaderN>>]]
        /\ blobs' = IF config.paged THEN InstalledBlobs(<<k, LeaderN>>, p) ELSE blobs
        /\ op' = [kind |-> "installed", payload |-> p, old |-> mem.snapshot]
  BY ZenonT(30), <1>k, <1>l
<1>0. /\ up /\ op = None /\ build = None /\ committed = Len(hist)
      /\ op' # None /\ DOMAIN op' = {"kind", "payload", "old"}
      /\ op'.kind = "installed" /\ op'.payload = p /\ op'.old = mem.snapshot
      /\ p # None /\ p.index = k /\ committed' = k
      /\ DOMAIN mem' = DOMAIN mem /\ mem'.last_applied = k
      /\ mem'.snapshot # None /\ mem'.snapshot.index = k /\ mem'.snapshot.name = <<k, LeaderN>>
      /\ blobs' = IF config.paged THEN Put(blobs, <<k, LeaderN>>, p) ELSE blobs
      /\ UNCHANGED <<config, voted, disk, up, build>>
  <2>1. /\ Idle /\ build = None /\ committed = LastIndex
        /\ UNCHANGED <<config, voted, disk, up, build>>
    BY Zenon DEF Install, external
  <2> QED
    <3>1. /\ op' # None /\ DOMAIN op' = {"kind", "payload", "old"}
          /\ op'.kind = "installed" /\ op'.payload = p /\ op'.old = mem.snapshot /\ p # None
      BY SMTT(30), <1>p DEF None
    <3>2. /\ DOMAIN mem' = DOMAIN mem /\ mem'.last_applied = k
          /\ mem'.snapshot = [index |-> k, name |-> <<k, LeaderN>>]
      BY Zenon, <1>p DEF IInv, Shapes
    <3>3. mem'.snapshot # None /\ mem'.snapshot.index = k /\ mem'.snapshot.name = <<k, LeaderN>>
      BY <3>2 DEF None
    <3> QED
      BY <1>p, <2>1, <3>1, <3>2, <3>3 DEF Idle, LastIndex, InstalledBlobs
<1>a. /\ Len(hist) \in Nat /\ k = Len(hist) + 1 /\ Len(hist') = k
      /\ \A i \in 1..Len(hist) : hist'[i] = hist[i]
      /\ hist' \in Seq(Commands)
  BY <1>k, <1>p DEF IInv, Numbers, LastIndex
<1>b. /\ disk.snap # None => disk.snap.index \in Int /\ disk.snap.index < k
      /\ mem.snapshot # None => mem.snapshot.name[1] < k
  BY <1>0, <1>a DEF IInv, SnapCommitted, Held, At
<1>1. Shapes'
  BY Zenon, <1>0 DEF IInv, Shapes, At
<1>2. Numbers'
  BY <1>0, <1>a DEF IInv, Numbers
<1>3. LogTable'
  BY <1>0, <1>a DEF IInv, LogTable, At
<1>4. SnapCommitted'
  BY <1>0, <1>a, <1>b DEF IInv, SnapCommitted, At
<1>5. Held'
  BY <1>0, <1>a DEF IInv, Held, At, Building
<1>6. Built'
  BY Zenon, <1>0 DEF IInv, Built, Building, BlobName
<1>7. Installed'
  BY <1>0, <1>a, <1>b DEF IInv, Installed, At, Put
<1>8. AckedDurable'
  BY <1>0, <1>a DEF IInv, AckedDurable, At
<1>9. PointerIntact'
  <2>1. \A n \in DOMAIN blobs : blobs[n] # None => n \in DOMAIN blobs' /\ blobs'[n] # None
    BY <1>0 DEF Put
  <2> QED
    BY <1>0, <2>1 DEF IInv, PointerIntact, BlobIntact
<1> QED
  BY Zenon, <1>1, <1>2, <1>3, <1>4, <1>5, <1>6, <1>7, <1>8, <1>9 DEF IInv

\* The pointer moves to the installed blob, which covers the whole log.
LEMMA StepInstallSaved ==
    ASSUME IInv, InstallSaved
    PROVE  IInv'
<1>0. /\ up /\ op # None /\ op.kind = "installed"
      /\ DOMAIN disk' = {"log", "purged", "vote", "snap"}
      /\ disk'.log = disk.log /\ disk'.vote = disk.vote
      /\ disk'.snap # None /\ disk'.snap.index = op.payload.index /\ disk'.snap.n = LeaderN
      /\ op' # None /\ DOMAIN op' = {"kind", "payload", "old"}
      /\ op'.kind = "saved" /\ op'.payload = op.payload /\ op'.old = op.old
      /\ UNCHANGED <<config, hist, committed, voted, blobs, up, mem, build>>
  BY DEF InstallSaved, external, Pointer, None, IInv, Shapes
<1>a. /\ build = None /\ op.payload.index \in Int /\ op.payload.index = Len(hist)
      /\ committed = Len(hist) /\ mem.snapshot # None /\ mem.snapshot.index = op.payload.index
  BY <1>0 DEF IInv, Shapes, Installed, At
<1>1. Shapes'
  BY <1>0 DEF IInv, Shapes, At
<1>2. Numbers'
  BY Zenon, <1>0 DEF IInv, Numbers
<1>3. LogTable'
  BY Zenon, <1>0 DEF IInv, LogTable, At, Numbers
<1>4. SnapCommitted'
  BY <1>0, <1>a DEF IInv, SnapCommitted, At
<1>5. Held'
  BY <1>0, <1>a DEF IInv, Held, At, Building
<1>6. Built'
  BY <1>0, <1>a DEF IInv, Built, Building, BlobName
<1>7. Installed'
  BY <1>0 DEF IInv, Installed, At
<1>8. AckedDurable'
  BY <1>0, <1>a DEF IInv, AckedDurable
<1>9. PointerIntact'
  BY <1>0 DEF IInv, PointerIntact, BlobIntact, Installed, At
<1> QED
  BY Zenon, <1>1, <1>2, <1>3, <1>4, <1>5, <1>6, <1>7, <1>8, <1>9 DEF IInv

\* The snapshot it replaces goes away: an older blob.
LEMMA StepInstallDone ==
    ASSUME IInv, InstallDone
    PROVE  IInv'
<1>0. /\ up /\ op # None /\ op.kind = "saved" /\ op' = None
      /\ blobs' = IF op.old = None THEN blobs ELSE Drop(blobs, op.old.name)
      /\ UNCHANGED <<config, hist, committed, voted, disk, up, mem, build>>
  BY Zenon DEF InstallDone, external
<1>a. /\ build = None /\ disk.snap # None /\ disk.snap.index \in Int
      /\ op.old # None => op.old.name # <<disk.snap.index, disk.snap.n>>
  BY <1>0 DEF IInv, Shapes, Installed, At, SnapCommitted
<1>1. Shapes'
  BY Zenon, <1>0 DEF IInv, Shapes, At
<1>2. Numbers'
  BY <1>0 DEF IInv, Numbers
<1>3. LogTable'
  BY Zenon, <1>0 DEF IInv, LogTable, At
<1>4. SnapCommitted'
  BY <1>0 DEF IInv, SnapCommitted, At
<1>5. Held'
  BY <1>0 DEF IInv, Held, At, Building
<1>6. Built'
  BY <1>0, <1>a DEF IInv, Built, Building, BlobName
<1>7. Installed'
  BY <1>0 DEF IInv, Installed, At
<1>8. AckedDurable'
  BY Zenon, <1>0 DEF IInv, AckedDurable
<1>9. PointerIntact'
  BY <1>0, <1>a DEF IInv, PointerIntact, BlobIntact, Drop
<1> QED
  BY Zenon, <1>1, <1>2, <1>3, <1>4, <1>5, <1>6, <1>7, <1>8, <1>9 DEF IInv

\* An install that cannot be restored closes the member.
LEMMA StepInstallRefused ==
    ASSUME IInv, InstallRefused
    PROVE  IInv'
<1>0. /\ up /\ op = None /\ build = None /\ ~up'
      /\ UNCHANGED <<config, hist, committed, voted, disk, blobs, mem, op, build>>
  BY Zenon DEF InstallRefused, Idle
<1>1. Shapes'
  BY Zenon, <1>0 DEF IInv, Shapes, At
<1>2. Numbers'
  BY Zenon, <1>0 DEF IInv, Numbers
<1>3. LogTable'
  BY Zenon, <1>0 DEF IInv, LogTable, At
<1>4. SnapCommitted'
  BY Zenon, <1>0 DEF IInv, SnapCommitted, At
<1>5. Held'
  BY Zenon, <1>0 DEF IInv, Held, At, Building
<1>6. Built'
  BY <1>0 DEF IInv, Built, Building, BlobName
<1>7. Installed'
  BY Zenon, <1>0 DEF IInv, Installed, At
<1>8. AckedDurable'
  BY Zenon, <1>0 DEF IInv, AckedDurable
<1>9. PointerIntact'
  BY <1>0 DEF IInv, PointerIntact, BlobIntact
<1> QED
  BY Zenon, <1>1, <1>2, <1>3, <1>4, <1>5, <1>6, <1>7, <1>8, <1>9 DEF IInv

-----------------------------------------------------------------------------
(* Crash and recovery. *)

\* A crash forgets an install whose pointer was not recorded.
LEMMA StepCrash ==
    ASSUME IInv, Crash
    PROVE  IInv'
<1>0. /\ up /\ ~up' /\ op' = None /\ build' = None
      /\ UNCHANGED <<config, voted, disk, blobs, mem>>
  BY Zenon DEF Crash
<1>a. /\ hist' \in Seq(Commands) /\ committed' \in Nat /\ committed' <= Len(hist')
      /\ \A i \in 1 .. Len(hist') : /\ i \in 1 .. Len(hist) /\ hist'[i] = hist[i]
                                    /\ ~(At("installed") /\ i = Len(hist))
      /\ \A i \in DOMAIN disk.log : i <= Len(hist') + 1
      /\ disk.snap # None => disk.snap.index <= committed'
  <2>1. CASE At("installed")
    <3>1. hist' = SubSeq(hist, 1, Len(hist) - 1) /\ committed' = committed - 1
      BY Zenon, <2>1 DEF Crash, At
    <3>2. /\ Len(hist) \in Nat \ {0} /\ committed = Len(hist) /\ hist \in Seq(Commands)
      BY Zenon, <2>1 DEF IInv, Numbers, Installed
    <3>3. /\ Len(hist') = Len(hist) - 1 /\ hist' \in Seq(Commands)
          /\ \A i \in 1 .. Len(hist) - 1 : hist'[i] = hist[i]
      BY <3>1, <3>2
    <3>4. \A i \in DOMAIN disk.log : i \in Nat /\ i < Len(hist)
      BY Zenon, <2>1 DEF IInv, LogTable
    <3>5. disk.snap # None => disk.snap.index \in Int /\ disk.snap.index < committed
      BY <2>1 DEF IInv, SnapCommitted
    <3> QED
      BY <3>1, <3>2, <3>3, <3>4, <3>5
  <2>2. CASE ~At("installed")
    <3>1. UNCHANGED <<hist, committed>>
      BY Zenon, <2>2 DEF Crash, At
    <3> QED
      BY <2>2, <3>1 DEF IInv, Numbers, LogTable, SnapCommitted
  <2> QED
    BY Zenon, <2>1, <2>2
<1>1. Shapes'
  BY Zenon, <1>0 DEF IInv, Shapes, At
<1>2. Numbers'
  BY <1>0, <1>a DEF IInv, Numbers
<1>3. LogTable'
  BY <1>0, <1>a DEF IInv, LogTable, At
<1>4. SnapCommitted'
  BY <1>0, <1>a DEF IInv, SnapCommitted, At
<1>5. Held'
  BY <1>0 DEF IInv, Held, At, Building
<1>6. Built'
  BY <1>0 DEF IInv, Built, Building, BlobName
<1>7. Installed'
  BY SMTT(30), <1>0 DEF IInv, Installed, At
<1>8. AckedDurable'
  BY <1>0, <1>a DEF IInv, AckedDurable, At
<1>9. PointerIntact'
  BY <1>0 DEF IInv, PointerIntact, BlobIntact
<1> QED
  BY Zenon, <1>1, <1>2, <1>3, <1>4, <1>5, <1>6, <1>7, <1>8, <1>9 DEF IInv

\* A restart finds what was acknowledged: the log goes on behind the snapshot,
\* at most one entry further than what the member had answered for.
LEMMA StepRecover ==
    ASSUME IInv, Recover
    PROVE  IInv'
<1>d. PICK covered : covered = IF disk.snap = None THEN 0 ELSE disk.snap.index
  BY Zenon
<1>l. PICK last : last = Max(DOMAIN disk.log \cup {covered})
  BY Zenon
<1>0. /\ ~up /\ up' /\ voted' = disk.vote /\ op = None /\ build = None
      /\ hist' = [i \in 1 .. last |-> IF i \in DOMAIN disk.log THEN disk.log[i] ELSE hist[i]]
      /\ DOMAIN mem' = {"purged", "vote", "state", "last_applied", "snapshot", "snapshot_idx"}
      /\ mem'.last_applied = covered
      /\ disk.snap = None => mem'.snapshot = None
      /\ disk.snap # None => /\ mem'.snapshot # None /\ mem'.snapshot.index = disk.snap.index
                             /\ mem'.snapshot.name = <<disk.snap.index, disk.snap.n>>
      /\ UNCHANGED <<config, committed, disk, blobs, op, build>>
  <2>1. \E s : mem' = [purged |-> disk.purged, vote |-> disk.vote, state |-> s,
                       last_applied |-> RecoveredApplied(disk.snap),
                       snapshot |-> IF disk.snap = None THEN None
                                    ELSE [index |-> disk.snap.index,
                                          name |-> <<disk.snap.index, disk.snap.n>>],
                       snapshot_idx |-> RecoveredIdx(disk.snap)]
    BY Zenon DEF Recover
  <2>2. hist' = [i \in 1 .. last |-> IF i \in DOMAIN disk.log THEN disk.log[i] ELSE hist[i]]
    BY Zenon, <1>d, <1>l DEF Recover
  <2>3. /\ ~up /\ up' /\ voted' = disk.vote
        /\ UNCHANGED <<config, committed, disk, blobs, op, build>>
    BY ZenonT(30) DEF Recover, external
  <2> QED
    BY <1>d, <2>1, <2>2, <2>3 DEF IInv, Shapes, None, RecoveredApplied
<1>a. /\ covered \in Nat /\ covered <= committed /\ Len(hist) \in Nat
      /\ hist \in Seq(Commands) /\ committed \in Nat /\ committed <= Len(hist)
      /\ \A i \in DOMAIN disk.log : i \in Nat \ {0} /\ i <= Len(hist) + 1 /\ disk.log[i] \in Commands
      /\ \A i \in 1 .. Len(hist) : i <= covered \/ i \in DOMAIN disk.log
  BY <1>0, <1>d DEF IInv, Numbers, LogTable, SnapCommitted, AckedDurable
<1>b. /\ last \in {Len(hist), Len(hist) + 1}
      /\ last \in DOMAIN disk.log \cup {covered}
      /\ \A i \in DOMAIN disk.log : i <= last
  <2> PICK S : S = DOMAIN disk.log \cup {covered}
    BY ZenonT(30)
  <2>1. ASSUME NEW x \in S, \A y \in S : x >= y PROVE last = x
    BY <1>a, <1>l, <2>1 DEF Max
  <2>2. \A y \in S : y \in Nat /\ y <= Len(hist) + 1 /\ (y = Len(hist) + 1 => y \in DOMAIN disk.log)
    BY <1>a
  <2>3. CASE Len(hist) + 1 \in DOMAIN disk.log
    <3>1. \A y \in S : Len(hist) + 1 >= y
      BY <1>a, <2>2
    <3>2. last = Len(hist) + 1
      BY <2>1, <2>3, <3>1
    <3> QED
      BY Zenon, <2>2, <3>1, <3>2, <2>3
  <2>4. CASE Len(hist) + 1 \notin DOMAIN disk.log
    <3>1. \A y \in S : Len(hist) >= y
      BY <1>a, <2>2, <2>4
    <3>2. Len(hist) \in S
      BY <1>a
    <3>3. last = Len(hist)
      BY <2>1, <3>1, <3>2
    <3> QED
      BY <3>1, <3>2, <3>3
  <2> QED
    BY Zenon, <2>3, <2>4
<1>c. /\ Len(hist') = last /\ hist' \in Seq(Commands)
      /\ \A i \in 1 .. last : \/ i \in DOMAIN disk.log /\ hist'[i] = disk.log[i]
                              \/ disk.snap # None /\ i <= disk.snap.index
  <2>1. \A i \in 1 .. last : i \in DOMAIN disk.log \/ (i <= Len(hist) /\ i <= covered)
    BY <1>a, <1>b
  <2>2. \A i \in 1 .. last : (IF i \in DOMAIN disk.log THEN disk.log[i] ELSE hist[i]) \in Commands
    <3> SUFFICES ASSUME NEW i \in 1 .. last, i \notin DOMAIN disk.log PROVE hist[i] \in Commands
      BY <1>a
    <3>1. i \in 1 .. Len(hist)
      BY <1>a, <1>b, <2>1
    <3> QED
      BY <1>a, <3>1
  <2>3. Len(hist') = last /\ hist' \in Seq(Commands)
    <3>1. hist' \in [1 .. last -> Commands]
      BY <1>0, <2>2
    <3>2. last \in Nat
      BY <1>a, <1>b
    <3> QED
      BY SMTT(30), <3>1, <3>2, FuncIsSeq
  <2>4. \A i \in 1 .. last : i \in DOMAIN disk.log => hist'[i] = disk.log[i]
    BY <1>0
  <2>5. \A i \in 1 .. last : i <= covered => disk.snap # None /\ i <= disk.snap.index
    BY <1>d
  <2> QED
    BY <2>1, <2>3, <2>4, <2>5
<1>1. Shapes'
  BY SMTT(30), <1>0 DEF IInv, Shapes, At
<1>2. Numbers'
  BY <1>0, <1>a, <1>b, <1>c DEF IInv, Numbers
<1>3. LogTable'
  <2>1. \A i \in DOMAIN disk.log : /\ i \in Nat \ {0} /\ disk.log[i] \in Commands
                                  /\ i <= last
    BY <1>a, <1>b
  <2>2. op' = None /\ disk' = disk /\ Len(hist') = last /\ last \in Nat
    BY <1>0, <1>a, <1>b, <1>c
  <2> QED
    BY <2>1, <2>2 DEF LogTable, At
<1>4. SnapCommitted'
  BY <1>0 DEF IInv, SnapCommitted, At
<1>5. Held'
  BY <1>0 DEF IInv, Held, At, Building, SnapCommitted
<1>6. Built'
  BY <1>0 DEF IInv, Built, Building, BlobName
<1>7. Installed'
  BY <1>0 DEF IInv, Installed, At
<1>8. AckedDurable'
  BY <1>0, <1>a, <1>b, <1>c DEF IInv, AckedDurable, Numbers
<1>9. PointerIntact'
  BY <1>0 DEF IInv, PointerIntact, BlobIntact
<1> QED
  BY Zenon, <1>1, <1>2, <1>3, <1>4, <1>5, <1>6, <1>7, <1>8, <1>9 DEF IInv

-----------------------------------------------------------------------------
\* Every storage call, build, install, crash and recovery.
LEMMA StepIInv == IInv /\ [Next]_vars => IInv'
<1> SUFFICES ASSUME IInv, [Next]_vars PROVE IInv'
  BY Zenon
<1>1. CASE AppendDurable \/ AppendDone \/ Commit \/ Truncate \/ Purge
  BY <1>1, StepAppendDurable, StepAppendDone, StepCommit, StepTruncate, StepPurge
<1>2. CASE VoteDurable \/ VoteDone \/ Apply
  BY <1>2, StepVoteDurable, StepVoteDone, StepApply
<1>3. CASE Capture \/ Serialize \/ Written \/ SaveSnapshot \/ Publish
  BY Zenon, <1>3, StepCapture, StepSerialize, StepWritten, StepSaveSnapshot, StepPublish
<1>4. CASE Install \/ InstallSaved \/ InstallDone \/ InstallRefused
  BY <1>4, StepInstall, StepInstallSaved, StepInstallDone, StepInstallRefused
<1>5. CASE Crash \/ Recover
  BY <1>5, StepCrash, StepRecover
<1>6. CASE UNCHANGED vars
  <2>0. UNCHANGED <<config, hist, committed, voted, disk, blobs, up, mem, op, build>>
    BY <1>6 DEF vars
  <2>1. Shapes' /\ Numbers' /\ LogTable' /\ SnapCommitted'
    BY SMTT(30), <2>0 DEF IInv, Shapes, Numbers, LogTable, SnapCommitted, At
  <2>2. Held' /\ Built' /\ Installed'
    BY SMTT(30), <2>0 DEF IInv, Held, Built, Installed, At, Building, BlobName
  <2>3. AckedDurable' /\ PointerIntact'
    BY ZenonT(30), <2>0 DEF IInv, AckedDurable, PointerIntact, BlobIntact
  <2> QED
    BY <2>1, <2>2, <2>3 DEF IInv
<1> QED
  BY <1>1, <1>2, <1>3, <1>4, <1>5, <1>6 DEF Next

\* What a storage call has returned for can be recovered after a crash at any
\* step (cluster/store.rs append_to_log, save_vote, purge_logs_upto,
\* build_snapshot, install_snapshot): every acknowledged entry is in the log
\* table or covered by the recorded snapshot, the vote is recorded, and the
\* blob the pointer names is whole.
THEOREM AckedRecoverable == Spec => []Recoverable
<1>1. IInv => Recoverable
  BY Zenon DEF IInv, Recoverable
<1> QED
  BY <1>1, InitIInv, StepIInv, PTL DEF Spec
=============================================================================

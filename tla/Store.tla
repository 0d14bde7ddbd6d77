--------------------------------- MODULE Store ---------------------------------
(***************************************************************************)
(* The three implementations of store.Store (internal/store): a Go map     *)
(* behind an RWMutex, a Bolt file with exclusive write transactions and    *)
(* snapshot reads, and etcd, where a call is a message that the server     *)
(* applies at some time, whether or not its sender still waits.            *)
(*                                                                         *)
(* A record is stored under the key the backend builds for it.  JSON       *)
(* encoding is lossless for these records and left out.  The backend is    *)
(* chosen when the daemon starts (cmd/sltvd) and never changes.            *)
(***************************************************************************)
EXTENDS Sequences, SequencesExt

CONSTANTS
    Clients,    \* goroutines calling the store
    Disks, VMs, \* names, as sequences of characters
    VGs,        \* volume groups
    Versions,   \* what else a record holds
    Requests,   \* the calls clients make
    Backends,   \* the backends looked at
    Blank,        \* the empty string of a list filter
    None        \* absence of a record, of a call, of a writer

\* store.DiskRecord and store.AttachmentRecord
DiskRecs == [name : Disks, vg : VGs, version : Versions]
AttRecs == [disk : Disks, vm : VMs, version : Versions]

AllRequests ==
    [op : {"CreateDisk", "UpdateDisk"}, rec : DiskRecs]
        \cup [op : {"GetDisk", "DeleteDisk"}, name : Disks]
        \cup [op : {"ListDisks"}, vg : VGs \cup {Blank}]
        \cup [op : {"CreateAttachment"}, rec : AttRecs]
        \cup [op : {"GetAttachment", "DeleteAttachment"}, disk : Disks, vm : VMs]
        \cup [op : {"ListAttachments"}, disk : Disks \cup {Blank}, vm : VMs \cup {Blank}]

ASSUME StoreAssumption ==
    /\ Requests \subseteq AllRequests
    /\ Backends \subseteq {"memory", "bolt", "etcd"}
    /\ None \notin DiskRecs \cup AttRecs \cup AllRequests \cup Clients
    /\ Blank \notin VGs /\ Blank \notin Disks /\ Blank \notin VMs

VARIABLES
    backend,    \* which implementation runs
    kv,         \* the stored records, by key
    open,       \* the Bolt file is open
    writer,     \* the holder of mu.Lock, or of Bolt's write transaction
    readers,    \* the holders of mu.RLock, or of a Bolt read transaction
    st,         \* st[c]: how far c's call is
    op,         \* op[c]: the call
    snap,       \* snap[c]: what c read when it got inside
    ans,        \* ans[c]: what the call is going to return
    adrift      \* adrift[c]: a message of c that nobody waits for any more

vars == <<backend, kv, open, writer, readers, st, op, snap, ans, adrift>>

-----------------------------------------------------------------------------
(* Keys.                                                                    *)

\* MUTANT of AttachmentKey: the disk is not part of the key.
AttachmentKeyNoDisk(d, v) == <<"|">> \o v

AttachmentKey(d, v) == d \o <<"|">> \o v

\* EtcdStore.attachKey, below the prefix of the attachments
attachKey(d, v) == d \o <<"/">> \o v

DiskKey(d) == <<"disks", d>>
AttKey(d, v) ==
    <<"attachments", IF backend = "etcd" THEN attachKey(d, v) ELSE AttachmentKey(d, v)>>

AttKeys == {AttKey(d, v) : d \in Disks, v \in VMs}
Keys == {DiskKey(d) : d \in Disks} \cup AttKeys

\* the key call r is about
KeyOf(r) ==
    CASE r.op \in {"CreateDisk", "UpdateDisk"} -> DiskKey(r.rec.name)
      [] r.op \in {"GetDisk", "DeleteDisk"} -> DiskKey(r.name)
      [] r.op = "CreateAttachment" -> AttKey(r.rec.disk, r.rec.vm)
      [] r.op \in {"GetAttachment", "DeleteAttachment"} -> AttKey(r.disk, r.vm)

\* No two attachments have one key, and the prefix etcd lists for a disk
\* holds that disk's keys only.
KeysDistinct ==
    \A d, e \in Disks, v, w \in VMs :
        /\ AttKey(d, v) = AttKey(e, w) => d = e /\ v = w
        /\ IsPrefix(d \o <<"/">>, attachKey(e, w)) <=> d = e

-----------------------------------------------------------------------------
(* What a method does to the records s, and what it answers.                *)

Creates(r) == r.op \in {"CreateDisk", "CreateAttachment"}
Deletes(r) == r.op \in {"DeleteDisk", "DeleteAttachment"}
Writes(r) == Creates(r) \/ Deletes(r) \/ r.op = "UpdateDisk"
Gets(r) == r.op \in {"GetDisk", "GetAttachment"}

Ok(recs) == [code |-> "ok", recs |-> recs]
Refused(code) == [code |-> code, recs |-> {}]

\* the check before a write: absent for a create, present for an update
Passes(s, r) ==
    /\ Creates(r) => s[KeyOf(r)] = None
    /\ r.op = "UpdateDisk" => s[KeyOf(r)] # None

Stored(s, r) ==
    IF ~Writes(r) \/ ~Passes(s, r) THEN s
    ELSE [s EXCEPT ![KeyOf(r)] = IF Deletes(r) THEN None ELSE r.rec]

ListDisks(s, vg) ==
    {x \in {s[DiskKey(d)] : d \in Disks} : x # None /\ vg \in {Blank, x.vg}}

\* MemoryStore and BoltStore filter the records; EtcdStore reads the keys
\* below the disk's prefix and filters by domain only.
ListAttachments(s, d, v) ==
    LET inRange(k) == IF backend = "etcd" THEN d = Blank \/ IsPrefix(d \o <<"/">>, k[2])
                      ELSE s[k] # None => d \in {Blank, s[k].disk}
    IN  {x \in {s[k] : k \in {k \in AttKeys : inRange(k)}} :
            x # None /\ v \in {Blank, x.vm}}

Reply(s, r) ==
    IF r.op = "ListDisks" THEN Ok(ListDisks(s, r.vg))
    ELSE IF r.op = "ListAttachments" THEN Ok(ListAttachments(s, r.disk, r.vm))
    ELSE IF Gets(r) THEN IF s[KeyOf(r)] = None THEN Refused("not_found")
                         ELSE Ok({s[KeyOf(r)]})
    ELSE IF Passes(s, r) THEN Ok({})
    ELSE Refused(IF Creates(r) THEN "exists" ELSE "not_found")

-----------------------------------------------------------------------------
Init ==
    /\ backend \in Backends
    /\ kv = [k \in Keys |-> None]
    /\ open = TRUE
    /\ writer = None
    /\ readers = {}
    /\ st = [c \in Clients |-> "idle"]
    /\ op = [c \in Clients |-> None]
    /\ snap = [c \in Clients |-> None]
    /\ ans = [c \in Clients |-> None]
    /\ adrift = [c \in Clients |-> None]

Move(c, from, to) == st[c] = from /\ st' = [st EXCEPT ![c] = to]
Answered(c, a) == ans' = [ans EXCEPT ![c] = a]

Call(c) ==
    /\ Move(c, "idle", "called")
    /\ \E r \in Requests : op' = [op EXCEPT ![c] = r]
    /\ UNCHANGED <<backend, kv, open, writer, readers, snap, ans, adrift>>

Return(c) ==
    /\ Move(c, "done", "idle")
    /\ op' = [op EXCEPT ![c] = None]
    /\ ans' = [ans EXCEPT ![c] = None]
    /\ UNCHANGED <<backend, kv, open, writer, readers, snap, adrift>>

\* c gets inside as a writer or as a reader and reads what it needs.
Enter(c) ==
    /\ Move(c, "called", "inside")
    /\ snap' = [snap EXCEPT ![c] = kv]
    /\ IF Writes(op[c]) THEN writer' = c /\ UNCHANGED readers
                        ELSE readers' = readers \cup {c} /\ UNCHANGED writer
    /\ UNCHANGED <<backend, kv, open, op, ans, adrift>>

\* MUTANT of Leave: an unlock is forgotten when a write is refused.
LeaveLocked(c, a) ==
    /\ Move(c, "inside", "done")
    /\ Answered(c, a)
    /\ snap' = [snap EXCEPT ![c] = None]
    /\ writer' = IF writer = c /\ a.code = "ok" THEN None ELSE writer
    /\ readers' = readers \ {c}
    /\ UNCHANGED <<backend, open, op, adrift>>

\* c leaves with its answer.
Leave(c, a) ==
    /\ Move(c, "inside", "done")
    /\ Answered(c, a)
    /\ snap' = [snap EXCEPT ![c] = None]
    /\ writer' = IF writer = c THEN None ELSE writer
    /\ readers' = readers \ {c}
    /\ UNCHANGED <<backend, open, op, adrift>>

-----------------------------------------------------------------------------
(* MemoryStore.                                                             *)

\* MUTANT of MemoryBegin: writers take the read lock.
MemoryBeginShared(c) ==
    /\ backend = "memory"
    /\ st[c] = "called"
    /\ writer = None \/ Writes(op[c])
    /\ Enter(c)

\* mu.Lock excludes everybody, mu.RLock excludes writers.
MemoryBegin(c) ==
    /\ backend = "memory"
    /\ st[c] = "called"
    /\ writer = None
    /\ Writes(op[c]) => readers = {}
    /\ Enter(c)

\* The method's body after its look-up, and the deferred unlock.
MemoryFinish(c) ==
    /\ backend = "memory"
    /\ st[c] = "inside"
    /\ kv' = IF Passes(snap[c], op[c]) THEN Stored(kv, op[c]) ELSE kv
    /\ Leave(c, Reply(snap[c], op[c]))

-----------------------------------------------------------------------------
(* BoltStore.                                                               *)

\* MUTANT of BoltBegin: a write transaction does not wait for another.
BoltBeginNoWait(c) ==
    /\ backend = "bolt" /\ open
    /\ st[c] = "called"
    /\ Enter(c)

\* db.Update waits for the write lock, db.View for nobody.
BoltBegin(c) ==
    /\ backend = "bolt" /\ open
    /\ st[c] = "called"
    /\ Writes(op[c]) => writer = None
    /\ Enter(c)

\* The function passed to Update or View ran on the transaction's own view
\* of the file; its commit makes that view the file.  A function that
\* returns an error is rolled back.
BoltCommit(c) ==
    /\ backend = "bolt"
    /\ st[c] = "inside"
    /\ kv' = IF Writes(op[c]) THEN Stored(snap[c], op[c]) ELSE kv
    /\ Leave(c, Reply(snap[c], op[c]))

\* The commit fails: the transaction is rolled back.
BoltRollback(c) ==
    /\ backend = "bolt"
    /\ st[c] = "inside" /\ Writes(op[c])
    /\ Leave(c, Refused("error"))
    /\ UNCHANGED kv

\* ErrDatabaseNotOpen
BoltClosed(c) ==
    /\ backend = "bolt" /\ ~open
    /\ Move(c, "called", "done")
    /\ Answered(c, Refused("error"))
    /\ UNCHANGED <<backend, kv, open, writer, readers, op, snap, adrift>>

\* BoltStore.Close waits for the transactions under way.
BoltClose ==
    /\ backend = "bolt" /\ open
    /\ writer = None /\ readers = {}
    /\ open' = FALSE
    /\ UNCHANGED <<backend, kv, writer, readers, st, op, snap, ans, adrift>>

\* The process ends, or dies, and the next one calls OpenBoltStore, which
\* keeps the buckets it finds.
Reopen ==
    /\ backend = "bolt"
    /\ open' = TRUE
    /\ writer' = None
    /\ readers' = {}
    /\ st' = [c \in Clients |-> "idle"]
    /\ op' = [c \in Clients |-> None]
    /\ snap' = [c \in Clients |-> None]
    /\ ans' = [c \in Clients |-> None]
    /\ UNCHANGED <<backend, kv, adrift>>

-----------------------------------------------------------------------------
(* EtcdStore: one message per call.                                         *)

\* The server executes the Txn, Get or Delete.
EtcdApply(c) ==
    /\ backend = "etcd"
    /\ Move(c, "called", "applied")
    /\ kv' = Stored(kv, op[c])
    /\ Answered(c, Reply(kv, op[c]))
    /\ UNCHANGED <<backend, open, writer, readers, op, snap, adrift>>

EtcdAnswer(c) ==
    /\ Move(c, "applied", "done")
    /\ UNCHANGED <<backend, kv, open, writer, readers, op, snap, ans, adrift>>

\* The context ends or the connection breaks.  A message that was not
\* applied yet is still on its way; at most one per client is followed.
EtcdGiveUp(c) ==
    /\ backend = "etcd"
    /\ \/ /\ Move(c, "called", "done")
          /\ adrift[c] = None
          /\ adrift' = [adrift EXCEPT ![c] = op[c]]
       \/ Move(c, "applied", "done") /\ UNCHANGED adrift
    /\ Answered(c, Refused("error"))
    /\ UNCHANGED <<backend, kv, open, writer, readers, op, snap>>

\* A message nobody waits for reaches the server, or is lost.
EtcdLate(c) ==
    /\ adrift[c] # None
    /\ kv' \in {kv, Stored(kv, adrift[c])}
    /\ adrift' = [adrift EXCEPT ![c] = None]
    /\ UNCHANGED <<backend, open, writer, readers, st, op, snap, ans>>

-----------------------------------------------------------------------------
Step(c) ==
    \/ MemoryBegin(c) \/ MemoryFinish(c)
    \/ BoltBegin(c) \/ BoltCommit(c) \/ BoltRollback(c) \/ BoltClosed(c)
    \/ EtcdApply(c) \/ EtcdAnswer(c) \/ EtcdGiveUp(c)
    \/ Return(c)

Next ==
    \/ \E c \in Clients : Call(c) \/ Step(c) \/ EtcdLate(c)
    \/ BoltClose \/ Reopen

Spec == Init /\ [][Next]_vars

-----------------------------------------------------------------------------
(* What the store promises.                                                 *)

Answers == [code : {"ok", "exists", "not_found", "error"}, recs : SUBSET (DiskRecs \cup AttRecs)]

\* Type invariant; exactly the clients inside hold a lock or a transaction.
StoreTypeOK ==
    /\ backend \in Backends
    /\ kv \in [Keys -> DiskRecs \cup AttRecs \cup {None}]
    /\ open \in BOOLEAN
    /\ writer \in Clients \cup {None}
    /\ readers \subseteq Clients
    /\ st \in [Clients -> {"idle", "called", "inside", "applied", "done"}]
    /\ op \in [Clients -> Requests \cup {None}]
    /\ snap \in [Clients -> [Keys -> DiskRecs \cup AttRecs \cup {None}] \cup {None}]
    /\ ans \in [Clients -> Answers \cup {None}]
    /\ adrift \in [Clients -> Requests \cup {None}]
    /\ \A c \in Clients : st[c] = "idle" <=> op[c] = None
    /\ \A c \in Clients :
          (c = writer \/ c \in readers) <=> st[c] = "inside"

\* A read is decided by the snapshot it took, a write when it is done.
Decided(c) == st[c] = "inside" /\ ~Writes(op[c])

\* Every backend implements the contract of store.Store: calls take effect
\* atomically, exactly as the records they found tell, and what was
\* acknowledged survives a restart of the daemon.
C == INSTANCE Catalog WITH
       db <- [disks |-> [d \in Disks |-> kv[DiskKey(d)]],
              atts |-> [k \in Disks \X VMs |-> kv[AttKey(k[1], k[2])]]],
       stage <- [c \in Clients |->
                   IF st[c] \in {"applied", "done"} \/ Decided(c) THEN "done"
                   ELSE IF st[c] = "idle" THEN "idle" ELSE "pending"],
       ans <- [c \in Clients |-> IF Decided(c) THEN Reply(snap[c], op[c]) ELSE ans[c]]

ImplementsCatalog == C!Spec

\* Nobody is inside MemoryStore's maps while a writer is: a Go map read
\* during a write aborts the process.
NoMapRace ==
    backend = "memory" /\ writer # None =>
        readers = {} /\ \A c \in Clients : st[c] = "inside" => c = writer

\* A Get of an attachment returns the record of the (disk, vm) it names,
\* "two attachments are equal iff (disk, vm) is equal".
GetsOwnRecord ==
    \A c \in Clients :
        st[c] = "done" /\ op[c].op = "GetAttachment" =>
            \A x \in ans[c].recs : x.disk = op[c].disk /\ x.vm = op[c].vm
=============================================================================

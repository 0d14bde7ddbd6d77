-------------------------------- MODULE Catalog --------------------------------
(***************************************************************************)
(* What store.Store promises its callers, whatever the backend: a call     *)
(* takes effect at one instant between its start and its return, creating  *)
(* only what is absent and updating only what is present.  A call that     *)
(* returned an error may have taken effect, or take effect later, once.    *)
(***************************************************************************)

CONSTANTS
    Clients,    \* goroutines calling the store
    Disks,      \* disk names
    VMs,        \* domain names
    Requests,   \* the calls clients make
    Blank,        \* the empty string of a list filter
    None        \* absence of a record, of a call

VARIABLES
    db,         \* db.disks by name, db.atts by <<disk, vm>>
    stage,      \* stage[c]: "idle", "pending" or "done" (about to return)
    op,         \* op[c]: the call c makes
    ans,        \* ans[c]: what it is going to return
    adrift      \* adrift[c]: a call c gave up that may still take effect

vars == <<db, stage, op, ans, adrift>>

Ok(recs) == [code |-> "ok", recs |-> recs]
Refused(code) == [code |-> code, recs |-> {}]
Found(x) == IF x = None THEN Refused("not_found") ELSE Ok({x})

\* The records of a table that satisfy a filter
Present(table) == {table[k] : k \in {k \in DOMAIN table : table[k] # None}}
DisksOf(s, vg) == {x \in Present(s.disks) : vg \in {Blank, x.vg}}
AttsOf(s, d, v) == {x \in Present(s.atts) : d \in {Blank, x.disk} /\ v \in {Blank, x.vm}}

\* The answer to call r in state s, and the state r leaves
Answer(s, r) ==
    CASE r.op = "CreateDisk" ->
            IF s.disks[r.rec.name] = None THEN Ok({}) ELSE Refused("exists")
      [] r.op = "UpdateDisk" ->
            IF s.disks[r.rec.name] = None THEN Refused("not_found") ELSE Ok({})
      [] r.op = "GetDisk" -> Found(s.disks[r.name])
      [] r.op = "ListDisks" -> Ok(DisksOf(s, r.vg))
      [] r.op = "CreateAttachment" ->
            IF s.atts[<<r.rec.disk, r.rec.vm>>] = None THEN Ok({}) ELSE Refused("exists")
      [] r.op = "GetAttachment" -> Found(s.atts[<<r.disk, r.vm>>])
      [] r.op = "ListAttachments" -> Ok(AttsOf(s, r.disk, r.vm))
      [] OTHER -> Ok({})

After(s, r) ==
    CASE r.op = "CreateDisk" /\ s.disks[r.rec.name] = None ->
            [s EXCEPT !.disks[r.rec.name] = r.rec]
      [] r.op = "UpdateDisk" /\ s.disks[r.rec.name] # None ->
            [s EXCEPT !.disks[r.rec.name] = r.rec]
      [] r.op = "DeleteDisk" -> [s EXCEPT !.disks[r.name] = None]
      [] r.op = "CreateAttachment" /\ s.atts[<<r.rec.disk, r.rec.vm>>] = None ->
            [s EXCEPT !.atts[<<r.rec.disk, r.rec.vm>>] = r.rec]
      [] r.op = "DeleteAttachment" -> [s EXCEPT !.atts[<<r.disk, r.vm>>] = None]
      [] OTHER -> s

Init ==
    /\ db = [disks |-> [d \in Disks |-> None], atts |-> [k \in Disks \X VMs |-> None]]
    /\ stage = [c \in Clients |-> "idle"]
    /\ op = [c \in Clients |-> None]
    /\ ans = [c \in Clients |-> None]
    /\ adrift = [c \in Clients |-> None]

Call(c) ==
    /\ stage[c] = "idle"
    /\ \E r \in Requests : op' = [op EXCEPT ![c] = r]
    /\ stage' = [stage EXCEPT ![c] = "pending"]
    /\ UNCHANGED <<db, ans, adrift>>

TakeEffect(c) ==
    /\ stage[c] = "pending"
    /\ db' = After(db, op[c])
    /\ ans' = [ans EXCEPT ![c] = Answer(db, op[c])]
    /\ stage' = [stage EXCEPT ![c] = "done"]
    /\ UNCHANGED <<op, adrift>>

\* The call fails without an effect so far; it may be left adrift.
Fail(c) ==
    /\ stage[c] = "pending"
    /\ ans' = [ans EXCEPT ![c] = Refused("error")]
    /\ stage' = [stage EXCEPT ![c] = "done"]
    /\ \/ UNCHANGED adrift
       \/ adrift[c] = None /\ adrift' = [adrift EXCEPT ![c] = op[c]]
    /\ UNCHANGED <<db, op>>

\* The answer is lost on its way to the caller.
LoseAnswer(c) ==
    /\ stage[c] = "done"
    /\ ans' = [ans EXCEPT ![c] = Refused("error")]
    /\ UNCHANGED <<db, stage, op, adrift>>

\* An abandoned call takes effect after all, or never will.
Settle(c) ==
    /\ adrift[c] # None
    /\ db' \in {db, After(db, adrift[c])}
    /\ adrift' = [adrift EXCEPT ![c] = None]
    /\ UNCHANGED <<stage, op, ans>>

Return(c) ==
    /\ stage[c] = "done"
    /\ stage' = [stage EXCEPT ![c] = "idle"]
    /\ op' = [op EXCEPT ![c] = None]
    /\ ans' = [ans EXCEPT ![c] = None]
    /\ UNCHANGED <<db, adrift>>

\* The process with all its calls is gone; the records are not.
Restart ==
    /\ stage' = [c \in Clients |-> "idle"]
    /\ op' = [c \in Clients |-> None]
    /\ ans' = [c \in Clients |-> None]
    /\ UNCHANGED <<db, adrift>>

Next ==
    \/ \E c \in Clients : \/ Call(c) \/ TakeEffect(c) \/ Fail(c) \/ LoseAnswer(c)
                          \/ Settle(c) \/ Return(c)
    \/ Restart

Spec == Init /\ [][Next]_vars
=============================================================================

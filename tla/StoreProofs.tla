------------------------------ MODULE StoreProofs ------------------------------
(***************************************************************************)
(* Proofs about the catalog's backends for any number of clients, any      *)
(* names and any set of requests: the locking of MemoryStore, the keys of  *)
(* attachments, and that every backend implements Catalog.                 *)
(***************************************************************************)
EXTENDS Store, TLAPS

-----------------------------------------------------------------------------
(* Keys.                                                                    *)

\* Names are sequences of characters, and no disk's name holds a separator
\* of the keys, as LVM demands of the volume that has the same name.  Domains
\* may have any name.
PlainNames ==
    \E Letters :
        /\ "|" \notin Letters /\ "/" \notin Letters
        /\ Disks \subseteq Seq(Letters)
        /\ VMs \subseteq Seq(Letters \cup {"|", "/"})

LEMMA SameSeq ==
    ASSUME NEW S, NEW s \in Seq(S), NEW t \in Seq(S), Len(s) = Len(t),
           \A i \in 1 .. Len(s) : s[i] = t[i]
    PROVE  s = t
  OBVIOUS

LEMMA ConcatAt ==
    ASSUME NEW S, NEW s \in Seq(S), NEW t \in Seq(S)
    PROVE  /\ s \o t \in Seq(S)
           /\ Len(s \o t) = Len(s) + Len(t)
           /\ \A i \in 1 .. Len(s) : (s \o t)[i] = s[i]
           /\ \A i \in 1 .. Len(t) : (s \o t)[Len(s) + i] = t[i]
  <1>1. s \o t \in Seq(S) /\ Len(s \o t) = Len(s) + Len(t)
    OBVIOUS
  <1>2. \A i \in 1 .. Len(s) : (s \o t)[i] = s[i]
    OBVIOUS
  <1>3. \A i \in 1 .. Len(t) : (s \o t)[Len(s) + i] = t[i]
    OBVIOUS
  <1> QED BY <1>1, <1>2, <1>3

\* What stands where in the key of name d, separator sep and rest v.
LEMMA KeyAt ==
    ASSUME NEW S, NEW sep \in S, NEW d \in Seq(S), NEW v \in Seq(S)
    PROVE  LET k == d \o <<sep>> \o v IN
           /\ k \in Seq(S)
           /\ Len(k) = Len(d) + 1 + Len(v)
           /\ \A i \in 1 .. Len(d) : k[i] = d[i]
           /\ k[Len(d) + 1] = sep
           /\ \A i \in 1 .. Len(v) : k[Len(d) + 1 + i] = v[i]
  <1>0. PICK p : p = d \o <<sep>>
    OBVIOUS
  <1>1. <<sep>> \in Seq(S) /\ Len(<<sep>>) = 1 /\ <<sep>>[1] = sep
    OBVIOUS
  <1>2. /\ p \in Seq(S) /\ Len(p) = Len(d) + 1
        /\ \A i \in 1 .. Len(d) : p[i] = d[i]
        /\ p[Len(d) + 1] = sep
    BY <1>0, <1>1, ConcatAt
  <1>9. PICK k : k = p \o v
    OBVIOUS
  <1>3. /\ k \in Seq(S) /\ Len(k) = Len(p) + Len(v)
        /\ \A i \in 1 .. Len(p) : k[i] = p[i]
        /\ \A i \in 1 .. Len(v) : k[Len(p) + i] = v[i]
    <2>1. p \in Seq(S)
      BY <1>2
    <2> QED BY <1>9, <2>1, ConcatAt
  <1>4. Len(d) \in Nat /\ Len(v) \in Nat
    OBVIOUS
  <1>5. /\ k \in Seq(S) /\ Len(k) = Len(d) + 1 + Len(v)
        /\ \A i \in 1 .. Len(d) : k[i] = d[i]
        /\ k[Len(d) + 1] = sep
        /\ \A i \in 1 .. Len(v) : k[Len(d) + 1 + i] = v[i]
    BY <1>2, <1>3, <1>4
  <1> QED BY <1>0, <1>5, <1>9

Joined(d, sep, v) == d \o <<sep>> \o v

\* the sequences over S without sep
Without(S, sep) == {s \in Seq(S) : \A i \in 1 .. Len(s) : s[i] # sep}

\* A name is read back from what stands before the first separator.
LEMMA FirstSeparator ==
    ASSUME NEW S, NEW sep \in S,
           NEW d \in Without(S, sep), NEW e \in Without(S, sep),
           NEW v \in Seq(S), NEW w \in Seq(S)
    PROVE  Joined(d, sep, v) = Joined(e, sep, w) => d = e /\ v = w
  <1> SUFFICES ASSUME d \o <<sep>> \o v = e \o <<sep>> \o w
               PROVE  d = e /\ v = w
    BY DEF Joined
  <1> /\ d \in Seq(S) /\ \A i \in 1 .. Len(d) : d[i] # sep
      /\ e \in Seq(S) /\ \A i \in 1 .. Len(e) : e[i] # sep
    BY DEF Without
  <1> DEFINE x == d \o <<sep>> \o v
             y == e \o <<sep>> \o w
  <1>0. /\ Len(d) \in Nat /\ Len(e) \in Nat /\ Len(v) \in Nat /\ Len(w) \in Nat
        /\ x = y
    OBVIOUS
  <1>1. /\ Len(x) = Len(d) + 1 + Len(v)
        /\ \A i \in 1 .. Len(d) : x[i] = d[i]
        /\ x[Len(d) + 1] = sep
        /\ \A i \in 1 .. Len(v) : x[Len(d) + 1 + i] = v[i]
    BY KeyAt
  <1>2. /\ Len(y) = Len(e) + 1 + Len(w)
        /\ \A i \in 1 .. Len(e) : y[i] = e[i]
        /\ y[Len(e) + 1] = sep
        /\ \A i \in 1 .. Len(w) : y[Len(e) + 1 + i] = w[i]
    BY KeyAt
  <1> HIDE DEF x, y
  <1>3. Len(d) = Len(e)
    <2>1. ASSUME Len(d) < Len(e) PROVE FALSE
      <3>1. Len(d) + 1 \in 1 .. Len(e)
        BY <1>0, <2>1
      <3>2. e[Len(d) + 1] = sep
        BY <1>0, <1>1, <1>2, <3>1
      <3> QED BY <3>1, <3>2
    <2>2. ASSUME Len(e) < Len(d) PROVE FALSE
      <3>1. Len(e) + 1 \in 1 .. Len(d)
        BY <1>0, <2>2
      <3>2. d[Len(e) + 1] = sep
        BY <1>0, <1>1, <1>2, <3>1
      <3> QED BY <3>1, <3>2
    <2> QED BY <1>0, <2>1, <2>2
  <1>4. Len(v) = Len(w)
    BY <1>0, <1>1, <1>2, <1>3
  <1>5. \A i \in 1 .. Len(d) : d[i] = e[i]
    BY <1>0, <1>1, <1>2, <1>3
  <1>6. \A i \in 1 .. Len(v) : v[i] = w[i]
    BY <1>0, <1>1, <1>2, <1>3, <1>4
  <1> QED BY <1>3, <1>4, <1>5, <1>6, SameSeq, Zenon

\* The keys of a disk are exactly the ones below its prefix.
LEMMA PrefixOfKey ==
    ASSUME NEW S, NEW sep \in S, NEW d \in Seq(S), NEW e \in Seq(S), NEW w \in Seq(S),
           \A i \in 1 .. Len(d) : d[i] # sep,
           \A i \in 1 .. Len(e) : e[i] # sep
    PROVE  IsPrefix(d \o <<sep>>, e \o <<sep>> \o w) <=> d = e
  <1> DEFINE p == d \o <<sep>>
             y == e \o <<sep>> \o w
  <1>0. Len(d) \in Nat /\ Len(e) \in Nat /\ Len(w) \in Nat
    OBVIOUS
  <1>1. /\ p \in Seq(S) /\ Len(p) = Len(d) + 1
        /\ \A i \in 1 .. Len(d) : p[i] = d[i]
        /\ p[Len(d) + 1] = sep
    <2>1. <<sep>> \in Seq(S) /\ Len(<<sep>>) = 1 /\ <<sep>>[1] = sep
      OBVIOUS
    <2> QED BY <2>1, ConcatAt
  <1>2. /\ y \in Seq(S) /\ Len(y) = Len(e) + 1 + Len(w)
        /\ \A i \in 1 .. Len(e) : y[i] = e[i]
        /\ y[Len(e) + 1] = sep
    BY KeyAt
  <1> HIDE DEF p, y
  <1>3. ASSUME IsPrefix(p, y) PROVE d = e
    <2>1. \A i \in 1 .. Len(p) : p[i] = y[i]
      <3> SUFFICES ASSUME NEW i \in 1 .. Len(p) PROVE p[i] = y[i]
        OBVIOUS
      <3>1. Len(p) =< Len(y) /\ SubSeq(p, 1, Len(p)) = SubSeq(y, 1, Len(p))
        BY <1>3 DEF IsPrefix
      <3>2. SubSeq(p, 1, Len(p))[i] = p[i] /\ SubSeq(y, 1, Len(p))[i] = y[i]
        BY <1>1, <1>2, <3>1
      <3> QED BY <3>1, <3>2
    <2>2. ASSUME Len(d) < Len(e) PROVE FALSE
      <3>1. Len(d) + 1 \in 1 .. Len(e) /\ Len(d) + 1 \in 1 .. Len(p)
        BY <1>0, <1>1, <2>2
      <3>2. e[Len(d) + 1] = sep
        BY <1>1, <1>2, <2>1, <3>1
      <3> QED BY <3>1, <3>2
    <2>3. ASSUME Len(e) < Len(d) PROVE FALSE
      <3>1. Len(e) + 1 \in 1 .. Len(d) /\ Len(e) + 1 \in 1 .. Len(p)
        BY <1>0, <1>1, <2>3
      <3>2. d[Len(e) + 1] = sep
        BY <1>1, <1>2, <2>1, <3>1
      <3> QED BY <3>1, <3>2
    <2>4. Len(d) = Len(e)
      BY <1>0, <2>2, <2>3
    <2>5. \A i \in 1 .. Len(d) : d[i] = e[i]
      BY <1>0, <1>1, <1>2, <2>1, <2>4
    <2> QED BY <2>4, <2>5
  <1>4. ASSUME d = e PROVE IsPrefix(p, y)
    <2>1. Len(p) \in Nat /\ Len(y) \in Nat /\ Len(p) =< Len(y)
      BY <1>0, <1>1, <1>2, <1>4
    <2>2. \A i \in 1 .. Len(p) : p[i] = y[i]
      BY <1>0, <1>1, <1>2, <1>4
    <2>3. SubSeq(p, 1, Len(p)) = SubSeq(y, 1, Len(p))
      BY <1>1, <1>2, <2>1, <2>2
    <2> QED BY <2>1, <2>3 DEF IsPrefix
  <1> QED BY <1>3, <1>4 DEF p, y

\* Under plain names the backends' keys tell all attachments apart.
LEMMA PlainKeysDistinct == PlainNames => KeysDistinct
  <1> SUFFICES ASSUME PlainNames,
                      NEW d \in Disks, NEW e \in Disks, NEW v \in VMs, NEW w \in VMs
               PROVE  /\ AttKey(d, v) = AttKey(e, w) => d = e /\ v = w
                      /\ IsPrefix(d \o <<"/">>, attachKey(e, w)) <=> d = e
    BY DEF KeysDistinct
  <1>1. PICK Letters : /\ "|" \notin Letters /\ "/" \notin Letters
                       /\ Disks \subseteq Seq(Letters)
                       /\ VMs \subseteq Seq(Letters \cup {"|", "/"})
    BY DEF PlainNames
  <1>0. PICK S : S = Letters \cup {"|", "/"}
    OBVIOUS
  <1>2. d \in Seq(Letters) /\ e \in Seq(Letters)
    BY <1>1
  <1>3. /\ \A i \in 1 .. Len(d) : d[i] # "|" /\ d[i] # "/"
        /\ \A i \in 1 .. Len(e) : e[i] # "|" /\ e[i] # "/"
    BY <1>1, <1>2
  <1>4. d \in Seq(S) /\ e \in Seq(S) /\ v \in Seq(S) /\ w \in Seq(S)
    BY <1>0, <1>1, <1>2
  <1>5. "|" \in S /\ "/" \in S
    BY <1>0
  <1>6. AttachmentKey(d, v) = AttachmentKey(e, w) => d = e /\ v = w
    <2>1. /\ AttachmentKey(d, v) = Joined(d, "|", v)
          /\ AttachmentKey(e, w) = Joined(e, "|", w)
      BY DEF AttachmentKey, Joined
    <2>2. d \in Without(S, "|") /\ e \in Without(S, "|")
      BY <1>3, <1>4 DEF Without
    <2>3. Joined(d, "|", v) = Joined(e, "|", w) => d = e /\ v = w
      BY <1>4, <1>5, <2>2, FirstSeparator
    <2> QED BY <2>1, <2>3
  <1>7. attachKey(d, v) = attachKey(e, w) => d = e /\ v = w
    <2>1. /\ attachKey(d, v) = Joined(d, "/", v)
          /\ attachKey(e, w) = Joined(e, "/", w)
      BY DEF attachKey, Joined
    <2>2. d \in Without(S, "/") /\ e \in Without(S, "/")
      BY <1>3, <1>4 DEF Without
    <2>3. Joined(d, "/", v) = Joined(e, "/", w) => d = e /\ v = w
      BY <1>4, <1>5, <2>2, FirstSeparator
    <2> QED BY <2>1, <2>3
  <1>8. AttKey(d, v) = AttKey(e, w) => d = e /\ v = w
    BY <1>6, <1>7 DEF AttKey
  <1>9. IsPrefix(d \o <<"/">>, attachKey(e, w)) <=> d = e
    BY <1>3, <1>4, <1>5, PrefixOfKey DEF attachKey
  <1> QED BY <1>8, <1>9

-----------------------------------------------------------------------------
(* What a method does to a table of records.                                *)

Values == DiskRecs \cup AttRecs \cup {None}
Tables == [Keys -> Values]

\* Attachments are stored under their own keys.
Placed(s) ==
    \A d \in Disks, v \in VMs :
        s[AttKey(d, v)] # None => s[AttKey(d, v)].disk = d /\ s[AttKey(d, v)].vm = v

LEMMA RequestCases ==
    ASSUME NEW r \in Requests
    PROVE  \/ r.op \in {"CreateDisk", "UpdateDisk"} /\ r.rec \in DiskRecs
           \/ r.op \in {"GetDisk", "DeleteDisk"} /\ r.name \in Disks
           \/ r.op = "ListDisks" /\ r.vg \in VGs \cup {Blank}
           \/ r.op = "CreateAttachment" /\ r.rec \in AttRecs
           \/ r.op \in {"GetAttachment", "DeleteAttachment"} /\ r.disk \in Disks /\ r.vm \in VMs
           \/ r.op = "ListAttachments" /\ r.disk \in Disks \cup {Blank}
                                       /\ r.vm \in VMs \cup {Blank}
  <1>1. r \in AllRequests
    BY StoreAssumption
  <1> QED BY <1>1 DEF AllRequests

\* The key a call is about, by the kind of the call.
LEMMA KeyOfCases ==
    ASSUME NEW r \in Requests
    PROVE  /\ r.op \in {"CreateDisk", "UpdateDisk"} =>
                 r.rec \in DiskRecs /\ r.rec.name \in Disks /\ KeyOf(r) = DiskKey(r.rec.name)
           /\ r.op \in {"GetDisk", "DeleteDisk"} =>
                 r.name \in Disks /\ KeyOf(r) = DiskKey(r.name)
           /\ r.op = "CreateAttachment" =>
                 /\ r.rec \in AttRecs /\ r.rec.disk \in Disks /\ r.rec.vm \in VMs
                 /\ KeyOf(r) = AttKey(r.rec.disk, r.rec.vm)
           /\ r.op \in {"GetAttachment", "DeleteAttachment"} =>
                 r.disk \in Disks /\ r.vm \in VMs /\ KeyOf(r) = AttKey(r.disk, r.vm)
           /\ Writes(r) \/ Gets(r) => KeyOf(r) \in Keys
  <1>1. r.op \in {"CreateDisk", "UpdateDisk"} =>
            r.rec \in DiskRecs /\ r.rec.name \in Disks /\ KeyOf(r) = DiskKey(r.rec.name)
    BY RequestCases DEF KeyOf, DiskRecs
  <1>2. r.op \in {"GetDisk", "DeleteDisk"} => r.name \in Disks /\ KeyOf(r) = DiskKey(r.name)
    BY RequestCases DEF KeyOf
  <1>3. r.op = "CreateAttachment" =>
            /\ r.rec \in AttRecs /\ r.rec.disk \in Disks /\ r.rec.vm \in VMs
            /\ KeyOf(r) = AttKey(r.rec.disk, r.rec.vm)
    BY RequestCases DEF KeyOf, AttRecs
  <1>4. r.op \in {"GetAttachment", "DeleteAttachment"} =>
            r.disk \in Disks /\ r.vm \in VMs /\ KeyOf(r) = AttKey(r.disk, r.vm)
    BY RequestCases DEF KeyOf
  <1>5. Writes(r) \/ Gets(r) => KeyOf(r) \in Keys
    BY <1>1, <1>2, <1>3, <1>4 DEF Writes, Creates, Deletes, Gets, Keys, AttKeys
  <1> QED BY <1>1, <1>2, <1>3, <1>4, <1>5

\* The keys of disks and attachments are told apart by their bucket.
LEMMA BucketsApart ==
    ASSUME NEW d, NEW e, NEW f, NEW v
    PROVE  /\ DiskKey(d) # AttKey(f, v)
           /\ DiskKey(d) = DiskKey(e) => d = e
  BY DEF DiskKey, AttKey

LEMMA DiskKeyIs ==
    ASSUME NEW d, NEW e, DiskKey(d) = DiskKey(e)
    PROVE  d = e
  BY BucketsApart

\* The first half of KeysDistinct.
LEMMA AttKeyIs ==
    ASSUME KeysDistinct,
           NEW d \in Disks, NEW e \in Disks, NEW v \in VMs, NEW w \in VMs,
           AttKey(d, v) = AttKey(e, w)
    PROVE  d = e /\ v = w
  BY Zenon DEF KeysDistinct

LEMMA StoredType ==
    ASSUME NEW s \in Tables, NEW r \in Requests
    PROVE  Stored(s, r) \in Tables
  <1>1. Writes(r) /\ ~Deletes(r) => r.rec \in Values
    BY KeyOfCases DEF Writes, Creates, Deletes, Values
  <1> QED BY <1>1, KeyOfCases DEF Stored, Tables, Values

LEMMA StoredPlaced ==
    ASSUME KeysDistinct, NEW s \in Tables, NEW r \in Requests, Placed(s)
    PROVE  Placed(Stored(s, r))
  <1> SUFFICES ASSUME Writes(r), Passes(s, r), NEW d \in Disks, NEW v \in VMs,
                      NEW k, k = AttKey(d, v), Stored(s, r)[k] # None
               PROVE  Stored(s, r)[k].disk = d /\ Stored(s, r)[k].vm = v
    BY DEF Placed, Stored
  <1>1. KeyOf(r) \in Keys /\ k \in Keys
    BY KeyOfCases DEF Keys, AttKeys
  <1>2. Stored(s, r)[k] = IF k = KeyOf(r) THEN IF Deletes(r) THEN None ELSE r.rec ELSE s[k]
    BY <1>1 DEF Stored, Tables
  <1>3. CASE k = KeyOf(r)
    <2>1. ~Deletes(r)
      BY <1>2, <1>3
    <2>2. r.op \notin {"CreateDisk", "UpdateDisk"}
      <3> SUFFICES ASSUME r.op \in {"CreateDisk", "UpdateDisk"} PROVE FALSE
        OBVIOUS
      <3>1. KeyOf(r) = DiskKey(r.rec.name)
        BY KeyOfCases
      <3>2. DiskKey(r.rec.name) # AttKey(d, v)
        BY BucketsApart
      <3> QED BY <1>3, <3>1, <3>2
    <2>3. r.op = "CreateAttachment"
      BY <2>1, <2>2 DEF Writes, Creates
    <2>4. r.rec.disk \in Disks /\ r.rec.vm \in VMs /\ KeyOf(r) = AttKey(r.rec.disk, r.rec.vm)
      BY <2>3, KeyOfCases
    <2>5. r.rec.disk = d /\ r.rec.vm = v
      <3>1. AttKey(r.rec.disk, r.rec.vm) = AttKey(d, v)
        BY <1>3, <2>4
      <3> QED BY <2>4, <3>1, AttKeyIs
    <2> QED BY <1>2, <1>3, <2>1, <2>5
  <1>4. CASE k # KeyOf(r)
    BY <1>2, <1>4 DEF Placed
  <1> QED BY <1>3, <1>4

LEMMA ReplyType ==
    ASSUME NEW s \in Tables, NEW r \in Requests
    PROVE  Reply(s, r) \in Answers
  <1> DEFINE Recs == DiskRecs \cup AttRecs
  <1>1. ListDisks(s, r.vg) \subseteq Recs
    BY DEF ListDisks, Tables, Values, Keys
  <1>2. ListAttachments(s, r.disk, r.vm) \subseteq Recs
    BY DEF ListAttachments, Tables, Values, Keys
  <1>3. Gets(r) /\ s[KeyOf(r)] # None => {s[KeyOf(r)]} \subseteq Recs
    BY KeyOfCases DEF Tables, Values
  <1> HIDE DEF Recs
  <1> QED BY <1>1, <1>2, <1>3 DEF Reply, Ok, Refused, Answers, Recs

\* A Get answers with what is stored under the name it was given.
LEMMA ReplyOwn ==
    ASSUME NEW s \in Tables, NEW r \in Requests, Placed(s), r.op = "GetAttachment"
    PROVE  \A x \in Reply(s, r).recs : x.disk = r.disk /\ x.vm = r.vm
  <1>1. r.disk \in Disks /\ r.vm \in VMs /\ KeyOf(r) = AttKey(r.disk, r.vm)
    BY KeyOfCases
  <1>2. Reply(s, r) = IF s[KeyOf(r)] = None THEN Refused("not_found") ELSE Ok({s[KeyOf(r)]})
    BY DEF Reply, Gets
  <1> QED BY <1>1, <1>2 DEF Placed, Refused, Ok

-----------------------------------------------------------------------------
(* The records as Catalog sees them.                                        *)

View(s) == [disks |-> [d \in Disks |-> s[DiskKey(d)]],
            atts |-> [k \in Disks \X VMs |-> s[AttKey(k[1], k[2])]]]

LEMMA TableExcept ==
    ASSUME NEW f, NEW g, NEW x, NEW y
    PROVE  /\ [[disks |-> f, atts |-> g] EXCEPT !.disks[x] = y]
                = [disks |-> [f EXCEPT ![x] = y], atts |-> g]
           /\ [[disks |-> f, atts |-> g] EXCEPT !.atts[x] = y]
                = [disks |-> f, atts |-> [g EXCEPT ![x] = y]]
  OBVIOUS

\* A method changes the records as the contract says.
LEMMA StoredView ==
    ASSUME KeysDistinct, NEW s \in Tables, NEW r \in Requests
    PROVE  View(Stored(s, r)) = C!After(View(s), r)
  <1>1. /\ \A d \in Disks : View(s).disks[d] = s[DiskKey(d)]
        /\ \A d \in Disks, v \in VMs : View(s).atts[<<d, v>>] = s[AttKey(d, v)]
    BY DEF View
  <1>2. CASE ~(Writes(r) /\ Passes(s, r))
    <2>1. Stored(s, r) = s
      BY <1>2 DEF Stored
    <2>2. C!After(View(s), r) = View(s)
      BY <1>1, <1>2, RequestCases, KeyOfCases
      DEF C!After, Writes, Creates, Deletes, Passes
    <2> QED BY <2>1, <2>2
  <1>3. CASE Writes(r) /\ Passes(s, r)
    <2> DEFINE new == IF Deletes(r) THEN None ELSE r.rec
    <2>1. KeyOf(r) \in Keys
      BY <1>3, KeyOfCases
    <2>2. \A k \in Keys : Stored(s, r)[k] = IF k = KeyOf(r) THEN new ELSE s[k]
      BY <1>3, <2>1 DEF Stored, Tables
    <2>3. /\ \A d \in Disks : DiskKey(d) \in Keys
          /\ \A d \in Disks, v \in VMs : AttKey(d, v) \in Keys
      BY DEF Keys, AttKeys
    <2> HIDE DEF new
    <2>4. ASSUME NEW e \in Disks, KeyOf(r) = DiskKey(e)
          PROVE  View(Stored(s, r)) = [View(s) EXCEPT !.disks[e] = new]
      <3>1. \A d \in Disks : Stored(s, r)[DiskKey(d)] = IF d = e THEN new ELSE s[DiskKey(d)]
        BY <2>2, <2>3, <2>4, BucketsApart
      <3>2. \A d \in Disks, v \in VMs : Stored(s, r)[AttKey(d, v)] = s[AttKey(d, v)]
        BY <2>2, <2>3, <2>4, BucketsApart
      <3>3. [d \in Disks |-> Stored(s, r)[DiskKey(d)]]
              = [[d \in Disks |-> s[DiskKey(d)]] EXCEPT ![e] = new]
        BY <3>1
      <3>4. [k \in Disks \X VMs |-> Stored(s, r)[AttKey(k[1], k[2])]]
              = [k \in Disks \X VMs |-> s[AttKey(k[1], k[2])]]
        BY <3>2
      <3>5. PICK f, g : /\ f = [d \in Disks |-> s[DiskKey(d)]]
                        /\ g = [k \in Disks \X VMs |-> s[AttKey(k[1], k[2])]]
        OBVIOUS
      <3>6. View(s) = [disks |-> f, atts |-> g]
        BY <3>5 DEF View
      <3>7. View(Stored(s, r)) = [disks |-> [f EXCEPT ![e] = new], atts |-> g]
        BY <3>3, <3>4, <3>5 DEF View
      <3> QED BY <3>6, <3>7, TableExcept
    <2>5. ASSUME NEW e \in Disks, NEW w \in VMs, KeyOf(r) = AttKey(e, w)
          PROVE  View(Stored(s, r)) = [View(s) EXCEPT !.atts[<<e, w>>] = new]
      <3>1. \A d \in Disks : Stored(s, r)[DiskKey(d)] = s[DiskKey(d)]
        BY <2>2, <2>3, <2>5, BucketsApart
      <3>2. \A d \in Disks, v \in VMs :
              Stored(s, r)[AttKey(d, v)] = IF d = e /\ v = w THEN new ELSE s[AttKey(d, v)]
        BY <2>2, <2>3, <2>5 DEF KeysDistinct
      <3>3. [d \in Disks |-> Stored(s, r)[DiskKey(d)]] = [d \in Disks |-> s[DiskKey(d)]]
        BY <3>1
      <3>4. [k \in Disks \X VMs |-> Stored(s, r)[AttKey(k[1], k[2])]]
              = [[k \in Disks \X VMs |-> s[AttKey(k[1], k[2])]] EXCEPT ![<<e, w>>] = new]
        <4>1. \A k \in Disks \X VMs : k[1] \in Disks /\ k[2] \in VMs /\ k = <<k[1], k[2]>>
          OBVIOUS
        <4>2. \A k \in Disks \X VMs :
                Stored(s, r)[AttKey(k[1], k[2])]
                  = IF k = <<e, w>> THEN new ELSE s[AttKey(k[1], k[2])]
          BY <3>2, <4>1
        <4> QED BY <4>2
      <3>5. PICK f, g : /\ f = [d \in Disks |-> s[DiskKey(d)]]
                        /\ g = [k \in Disks \X VMs |-> s[AttKey(k[1], k[2])]]
        OBVIOUS
      <3>6. View(s) = [disks |-> f, atts |-> g]
        BY <3>5 DEF View
      <3>7. View(Stored(s, r)) = [disks |-> f, atts |-> [g EXCEPT ![<<e, w>>] = new]]
        BY <3>3, <3>4, <3>5 DEF View
      <3> QED BY <3>6, <3>7, TableExcept
    <2>6. CASE r.op = "CreateDisk" \/ r.op = "UpdateDisk"
      <3>1. r.rec.name \in Disks /\ KeyOf(r) = DiskKey(r.rec.name)
        BY <2>6, KeyOfCases
      <3>2. C!After(View(s), r) = [View(s) EXCEPT !.disks[r.rec.name] = r.rec]
        BY <1>1, <1>3, <2>6, <3>1 DEF C!After, Passes, Creates
      <3>3. new = r.rec
        BY <2>6 DEF new, Deletes
      <3> QED BY <2>4, <3>1, <3>2, <3>3
    <2>7. CASE r.op = "DeleteDisk"
      <3>1. r.name \in Disks /\ KeyOf(r) = DiskKey(r.name)
        BY <2>7, KeyOfCases
      <3>2. C!After(View(s), r) = [View(s) EXCEPT !.disks[r.name] = None]
        BY <2>7 DEF C!After
      <3>3. new = None
        BY <2>7 DEF new, Deletes
      <3> QED BY <2>4, <3>1, <3>2, <3>3
    <2>8. CASE r.op = "CreateAttachment"
      <3>1. r.rec.disk \in Disks /\ r.rec.vm \in VMs /\ KeyOf(r) = AttKey(r.rec.disk, r.rec.vm)
        BY <2>8, KeyOfCases
      <3>2. C!After(View(s), r) = [View(s) EXCEPT !.atts[<<r.rec.disk, r.rec.vm>>] = r.rec]
        BY <1>1, <1>3, <2>8, <3>1 DEF C!After, Passes, Creates
      <3>3. new = r.rec
        BY <2>8 DEF new, Deletes
      <3> QED BY <2>5, <3>1, <3>2, <3>3
    <2>9. CASE r.op = "DeleteAttachment"
      <3>1. r.disk \in Disks /\ r.vm \in VMs /\ KeyOf(r) = AttKey(r.disk, r.vm)
        BY <2>9, KeyOfCases
      <3>2. C!After(View(s), r) = [View(s) EXCEPT !.atts[<<r.disk, r.vm>>] = None]
        BY <2>9 DEF C!After
      <3>3. new = None
        BY <2>9 DEF new, Deletes
      <3> QED BY <2>5, <3>1, <3>2, <3>3
    <2> QED BY <1>3, <2>6, <2>7, <2>8, <2>9 DEF Writes, Creates, Deletes
  <1> QED BY <1>2, <1>3

\* A method answers as the contract says.
LEMMA ReplyView ==
    ASSUME KeysDistinct, NEW s \in Tables, Placed(s), NEW r \in Requests
    PROVE  Reply(s, r) = C!Answer(View(s), r)
  <1>1. /\ \A d \in Disks : View(s).disks[d] = s[DiskKey(d)]
        /\ \A d \in Disks, v \in VMs : View(s).atts[<<d, v>>] = s[AttKey(d, v)]
        /\ DOMAIN View(s).disks = Disks /\ DOMAIN View(s).atts = Disks \X VMs
    BY DEF View
  <1> HIDE DEF View
  <1>2. CASE r.op = "ListDisks"
    <2>1. ListDisks(s, r.vg) = C!DisksOf(View(s), r.vg)
      BY <1>1 DEF ListDisks, C!DisksOf, C!Present
    <2> QED BY <1>2, <2>1 DEF Reply, Ok, C!Answer, C!Ok
  <1>3. CASE r.op = "ListAttachments"
    <2>1. ListAttachments(s, r.disk, r.vm) = C!AttsOf(View(s), r.disk, r.vm)
      <3>1. ASSUME NEW x PROVE x \in C!AttsOf(View(s), r.disk, r.vm)
                <=> \E d \in Disks, v \in VMs : /\ x = s[AttKey(d, v)] /\ x # None
                                               /\ r.disk \in {Blank, x.disk}
                                               /\ r.vm \in {Blank, x.vm}
        <4>1. \A k \in Disks \X VMs : /\ k[1] \in Disks /\ k[2] \in VMs
                                      /\ View(s).atts[k] = s[AttKey(k[1], k[2])]
          BY DEF View
        <4>2. \A d \in Disks, v \in VMs : /\ <<d, v>> \in Disks \X VMs
                                          /\ View(s).atts[<<d, v>>] = s[AttKey(d, v)]
          BY <1>1
        <4>3. x \in C!Present(View(s).atts)
                <=> \E d \in Disks, v \in VMs : x = s[AttKey(d, v)] /\ x # None
          <5>1. x \in C!Present(View(s).atts)
                  <=> \E k \in Disks \X VMs : x = View(s).atts[k] /\ x # None
            BY <1>1 DEF C!Present
          <5>2. (\E k \in Disks \X VMs : x = View(s).atts[k] /\ x # None)
                  <=> \E d \in Disks, v \in VMs : x = s[AttKey(d, v)] /\ x # None
            <6>1. ASSUME NEW k \in Disks \X VMs, x = View(s).atts[k], x # None
                  PROVE  \E d \in Disks, v \in VMs : x = s[AttKey(d, v)] /\ x # None
              BY <4>1, <6>1
            <6>2. ASSUME NEW d \in Disks, NEW v \in VMs, x = s[AttKey(d, v)], x # None
                  PROVE  \E k \in Disks \X VMs : x = View(s).atts[k] /\ x # None
              BY <4>2, <6>2
            <6> QED BY <6>1, <6>2
          <5> QED BY <5>1, <5>2
        <4> QED BY <4>3 DEF C!AttsOf
      <3>2. ASSUME NEW x PROVE x \in ListAttachments(s, r.disk, r.vm)
                <=> \E d \in Disks, v \in VMs : /\ x = s[AttKey(d, v)] /\ x # None
                                               /\ r.disk \in {Blank, x.disk}
                                               /\ r.vm \in {Blank, x.vm}
        <4>1. CASE backend # "etcd"
          BY <4>1 DEF ListAttachments, AttKeys
        <4>2. CASE backend = "etcd"
          <5>1. \A d \in Disks, v \in VMs : AttKey(d, v)[2] = attachKey(d, v)
            BY <4>2 DEF AttKey
          <5>2. r.disk = Blank \/ r.disk \in Disks
            BY <1>3, RequestCases
          <5>3. \A d \in Disks, v \in VMs : s[AttKey(d, v)] # None =>
                  ((r.disk = Blank \/ IsPrefix(r.disk \o <<"/">>, AttKey(d, v)[2]))
                     <=> r.disk \in {Blank, s[AttKey(d, v)].disk})
            BY <5>1, <5>2 DEF KeysDistinct, Placed
          <5> QED BY <4>2, <5>3 DEF ListAttachments, AttKeys
        <4> QED BY <4>1, <4>2
      <3> QED BY <3>1, <3>2
    <2> QED BY <1>3, <2>1 DEF Reply, Ok, C!Answer, C!Ok
  <1>4. CASE r.op = "GetDisk"
    <2>1. View(s).disks[r.name] = s[KeyOf(r)]
      BY <1>1, <1>4, KeyOfCases
    <2>2. Reply(s, r) = IF s[KeyOf(r)] = None THEN Refused("not_found") ELSE Ok({s[KeyOf(r)]})
      BY <1>4 DEF Reply, Gets
    <2>3. C!Answer(View(s), r) = C!Found(View(s).disks[r.name])
      BY <1>4 DEF C!Answer
    <2> QED BY <2>1, <2>2, <2>3 DEF C!Found, C!Ok, C!Refused, Ok, Refused
  <1>5. CASE r.op = "GetAttachment"
    <2>1. View(s).atts[<<r.disk, r.vm>>] = s[KeyOf(r)]
      BY <1>1, <1>5, KeyOfCases
    <2>2. Reply(s, r) = IF s[KeyOf(r)] = None THEN Refused("not_found") ELSE Ok({s[KeyOf(r)]})
      BY <1>5 DEF Reply, Gets
    <2>3. C!Answer(View(s), r) = C!Found(View(s).atts[<<r.disk, r.vm>>])
      BY <1>5 DEF C!Answer
    <2> QED BY <2>1, <2>2, <2>3 DEF C!Found, C!Ok, C!Refused, Ok, Refused
  <1>6. CASE r.op = "CreateDisk"
    <2>1. View(s).disks[r.rec.name] = s[KeyOf(r)]
      BY <1>1, <1>6, KeyOfCases
    <2>2. Reply(s, r) = IF s[KeyOf(r)] = None THEN Ok({}) ELSE Refused("exists")
      BY <1>6 DEF Reply, Gets, Passes, Creates
    <2>3. C!Answer(View(s), r)
            = IF View(s).disks[r.rec.name] = None THEN C!Ok({}) ELSE C!Refused("exists")
      BY <1>6 DEF C!Answer
    <2> QED BY <2>1, <2>2, <2>3 DEF C!Ok, C!Refused, Ok, Refused
  <1>7. CASE r.op = "UpdateDisk"
    <2>1. View(s).disks[r.rec.name] = s[KeyOf(r)]
      BY <1>1, <1>7, KeyOfCases
    <2>2. Reply(s, r) = IF s[KeyOf(r)] = None THEN Refused("not_found") ELSE Ok({})
      BY <1>7 DEF Reply, Gets, Passes, Creates
    <2>3. C!Answer(View(s), r)
            = IF View(s).disks[r.rec.name] = None THEN C!Refused("not_found") ELSE C!Ok({})
      BY <1>7 DEF C!Answer
    <2> QED BY <2>1, <2>2, <2>3 DEF C!Ok, C!Refused, Ok, Refused
  <1>8. CASE r.op = "CreateAttachment"
    <2>1. View(s).atts[<<r.rec.disk, r.rec.vm>>] = s[KeyOf(r)]
      BY <1>1, <1>8, KeyOfCases
    <2>2. Reply(s, r) = IF s[KeyOf(r)] = None THEN Ok({}) ELSE Refused("exists")
      BY <1>8 DEF Reply, Gets, Passes, Creates
    <2>3. C!Answer(View(s), r) = IF View(s).atts[<<r.rec.disk, r.rec.vm>>] = None
                                 THEN C!Ok({}) ELSE C!Refused("exists")
      BY <1>8 DEF C!Answer
    <2> QED BY <2>1, <2>2, <2>3 DEF C!Ok, C!Refused, Ok, Refused
  <1>9. CASE r.op = "DeleteDisk" \/ r.op = "DeleteAttachment"
    <2>1. Reply(s, r) = Ok({})
      BY <1>9 DEF Reply, Gets, Passes, Creates
    <2>2. C!Answer(View(s), r) = C!Ok({})
      BY <1>9 DEF C!Answer
    <2> QED BY <2>1, <2>2 DEF C!Ok, Ok
  <1> QED BY <1>2, <1>3, <1>4, <1>5, <1>6, <1>7, <1>8, <1>9, RequestCases

-----------------------------------------------------------------------------
(* Locks, transactions and messages.                                        *)

\* A client inside a method works on what it found there.  A writer is alone
\* among writers, so what it found is still what is stored.
Insiders ==
    \A c \in Clients : st[c] = "inside" =>
        /\ backend \in {"memory", "bolt"}
        /\ snap[c] \in Tables
        /\ Writes(op[c]) => writer = c /\ c \notin readers /\ snap[c] = kv
        /\ ~Writes(op[c]) => writer # c /\ c \in readers

\* Only etcd applies a call while its sender waits, or after it gave up.
Messages ==
    \A c \in Clients : st[c] = "applied" \/ adrift[c] # None => backend = "etcd"

WriterAlone == backend = "memory" /\ writer # None => readers = {}

StoreInv == StoreTypeOK /\ Insiders /\ Messages /\ WriterAlone

LEMMA BackendKept == ASSUME Next PROVE backend' = backend
  BY DEF Next, Step, Call, MemoryBegin, MemoryFinish, BoltBegin, BoltCommit, BoltRollback,
         BoltClosed, EtcdApply, EtcdAnswer, EtcdGiveUp, Return, EtcdLate, BoltClose, Reopen,
         Enter, Leave

LEMMA KeysKept == ASSUME backend' = backend PROVE Keys' = Keys /\ Tables' = Tables
  BY DEF Keys, AttKeys, AttKey, Tables

LEMMA CallInv == ASSUME StoreInv, NEW c \in Clients, Call(c) PROVE StoreInv'
  <1> USE DEF Call, Move
  <1>1. Keys' = Keys /\ Tables' = Tables
    BY KeysKept
  <1>2. PICK r \in Requests : op' = [op EXCEPT ![c] = r]
    OBVIOUS
  <1>3. r # None
    BY StoreAssumption
  <1>4. StoreTypeOK'
    BY <1>1, <1>2, <1>3 DEF StoreInv, StoreTypeOK
  <1>5. Insiders'
    BY <1>1, <1>2 DEF StoreInv, StoreTypeOK, Insiders
  <1>6. Messages' /\ WriterAlone'
    BY DEF StoreInv, StoreTypeOK, Messages, WriterAlone
  <1> QED BY <1>4, <1>5, <1>6 DEF StoreInv

LEMMA ReturnInv == ASSUME StoreInv, NEW c \in Clients, Return(c) PROVE StoreInv'
  <1> USE DEF Return, Move
  <1>1. Keys' = Keys /\ Tables' = Tables
    BY KeysKept
  <1>4. StoreTypeOK'
    BY <1>1 DEF StoreInv, StoreTypeOK
  <1>5. Insiders'
    BY <1>1 DEF StoreInv, StoreTypeOK, Insiders
  <1>6. Messages' /\ WriterAlone'
    BY DEF StoreInv, StoreTypeOK, Messages, WriterAlone
  <1> QED BY <1>4, <1>5, <1>6 DEF StoreInv

\* Whoever gets inside finds no writer there if it writes; a writer of
\* MemoryStore finds nobody, and a reader no writer.
LEMMA EnterInv ==
    ASSUME StoreInv, NEW c \in Clients, Enter(c),
           backend \in {"memory", "bolt"},
           Writes(op[c]) => writer = None,
           backend = "memory" => writer = None /\ (Writes(op[c]) => readers = {})
    PROVE  StoreInv'
  <1> USE DEF Enter, Move
  <1>1. Keys' = Keys /\ Tables' = Tables
    BY KeysKept
  <1>2. kv \in Tables /\ c # writer /\ c \notin readers /\ c # None
    BY StoreAssumption DEF StoreInv, StoreTypeOK, Tables, Values
  <1>4. StoreTypeOK'
    <2>1. \A b \in Clients : (b = writer \/ b \in readers)' <=> st'[b] = "inside"
      BY <1>2, StoreAssumption DEF StoreInv, StoreTypeOK
    <2> QED BY <1>1, <1>2, <2>1 DEF StoreInv, StoreTypeOK, Tables, Values
  <1>5. Insiders'
    <2> SUFFICES ASSUME NEW b \in Clients, st'[b] = "inside"
                 PROVE  /\ backend' \in {"memory", "bolt"}
                        /\ snap'[b] \in Tables'
                        /\ Writes(op'[b]) => writer' = b /\ b \notin readers' /\ snap'[b] = kv'
                        /\ ~Writes(op'[b]) => writer' # b /\ b \in readers'
      BY DEF Insiders
    <2>1. CASE b = c
      BY <1>1, <1>2, <2>1 DEF StoreInv, StoreTypeOK
    <2>2. CASE b # c
      BY <1>1, <1>2, <2>2, StoreAssumption DEF StoreInv, StoreTypeOK, Insiders
    <2> QED BY <2>1, <2>2
  <1>6. Messages' /\ WriterAlone'
    BY <1>2 DEF StoreInv, StoreTypeOK, Messages, WriterAlone
  <1> QED BY <1>4, <1>5, <1>6 DEF StoreInv

\* Whoever leaves takes its locks along; only a writer changed the records.
LEMMA LeaveInv ==
    ASSUME StoreInv, NEW c \in Clients, NEW a \in Answers, Leave(c, a),
           kv' = kv \/ (Writes(op[c]) /\ kv' \in Tables)
    PROVE  StoreInv'
  <1> USE DEF Leave, Move, Answered
  <1>1. Keys' = Keys /\ Tables' = Tables
    BY KeysKept
  <1>2. kv' \in Tables /\ c # None
    BY StoreAssumption DEF StoreInv, StoreTypeOK, Tables, Values
  <1>3. StoreTypeOK'
    <2>1. \A b \in Clients : (b = writer \/ b \in readers)' <=> st'[b] = "inside"
      BY StoreAssumption DEF StoreInv, StoreTypeOK
    <2> QED BY <1>1, <1>2, <2>1 DEF StoreInv, StoreTypeOK, Tables, Values
  <1>4. Insiders'
    <2> SUFFICES ASSUME NEW b \in Clients, st'[b] = "inside"
                 PROVE  /\ backend' \in {"memory", "bolt"}
                        /\ snap'[b] \in Tables'
                        /\ Writes(op'[b]) => writer' = b /\ b \notin readers' /\ snap'[b] = kv'
                        /\ ~Writes(op'[b]) => writer' # b /\ b \in readers'
      BY DEF Insiders
    <2>1. b # c /\ st[b] = "inside" /\ snap'[b] = snap[b] /\ op'[b] = op[b]
      BY DEF StoreInv, StoreTypeOK
    <2>2. Writes(op[b]) => writer = b /\ kv' = kv
      BY <2>1 DEF StoreInv, Insiders
    <2> QED BY <1>1, <2>1, <2>2, StoreAssumption DEF StoreInv, StoreTypeOK, Insiders
  <1>5. Messages' /\ WriterAlone'
    BY DEF StoreInv, StoreTypeOK, Messages, WriterAlone
  <1> QED BY <1>3, <1>4, <1>5 DEF StoreInv

\* What a call inside does to the records, in either backend: a read leaves
\* them, a write stores what follows from what it found, which is what is
\* stored.
Effect(c) == kv' = Stored(kv, op[c])

LEMMA InsideEffect ==
    ASSUME StoreInv, NEW c \in Clients, MemoryFinish(c) \/ BoltCommit(c)
    PROVE  /\ Effect(c)
           /\ Leave(c, Reply(snap[c], op[c]))
           /\ st[c] = "inside" /\ op[c] \in Requests /\ snap[c] \in Tables
           /\ kv' = kv \/ (Writes(op[c]) /\ kv' \in Tables)
           /\ Reply(snap[c], op[c]) \in Answers
  <1>1. st[c] = "inside" /\ Leave(c, Reply(snap[c], op[c]))
    BY DEF MemoryFinish, BoltCommit
  <1>2. op[c] \in Requests
    BY <1>1 DEF StoreInv, StoreTypeOK
  <1>3. snap[c] \in Tables /\ (Writes(op[c]) => snap[c] = kv)
    BY <1>1 DEF StoreInv, Insiders
  <1>4. Effect(c)
    BY <1>3 DEF Effect, MemoryFinish, BoltCommit, Stored
  <1>5. kv \in Tables
    BY DEF StoreInv, StoreTypeOK, Tables, Values
  <1>6. kv' = kv \/ (Writes(op[c]) /\ kv' \in Tables)
    <2>1. Stored(kv, op[c]) \in Tables
      BY <1>2, <1>5, StoredType
    <2>2. ~Writes(op[c]) => Stored(kv, op[c]) = kv
      BY DEF Stored
    <2> QED BY <1>4, <2>1, <2>2 DEF Effect
  <1>7. Reply(snap[c], op[c]) \in Answers
    BY <1>2, <1>3, ReplyType
  <1> QED BY <1>1, <1>2, <1>3, <1>4, <1>6, <1>7

LEMMA ErrorIsAnswer == Refused("error") \in Answers
  BY DEF Refused, Answers

LEMMA ClosedInv == ASSUME StoreInv, NEW c \in Clients, BoltClosed(c) PROVE StoreInv'
  <1> USE DEF BoltClosed, Move, Answered
  <1>1. Keys' = Keys /\ Tables' = Tables
    BY KeysKept
  <1>2. StoreTypeOK'
    BY <1>1, ErrorIsAnswer DEF StoreInv, StoreTypeOK
  <1>3. Insiders'
    BY <1>1 DEF StoreInv, StoreTypeOK, Insiders
  <1>4. Messages' /\ WriterAlone'
    BY DEF StoreInv, StoreTypeOK, Messages, WriterAlone
  <1> QED BY <1>2, <1>3, <1>4 DEF StoreInv

LEMMA CloseInv == ASSUME StoreInv, BoltClose PROVE StoreInv'
  <1>1. Keys' = Keys /\ Tables' = Tables
    BY KeysKept DEF BoltClose
  <1> QED BY <1>1 DEF BoltClose, StoreInv, StoreTypeOK, Insiders, Messages, WriterAlone

LEMMA ReopenInv == ASSUME StoreInv, Reopen PROVE StoreInv'
  <1> USE DEF Reopen
  <1>1. Keys' = Keys /\ Tables' = Tables
    BY KeysKept
  <1>2. StoreTypeOK'
    BY <1>1, StoreAssumption DEF StoreInv, StoreTypeOK
  <1>3. Insiders' /\ Messages' /\ WriterAlone'
    BY DEF StoreInv, StoreTypeOK, Insiders, Messages, WriterAlone
  <1> QED BY <1>2, <1>3 DEF StoreInv

LEMMA ApplyInv == ASSUME StoreInv, NEW c \in Clients, EtcdApply(c) PROVE StoreInv'
  <1> USE DEF EtcdApply, Move, Answered
  <1>1. Keys' = Keys /\ Tables' = Tables
    BY KeysKept
  <1>2. op[c] \in Requests /\ kv \in Tables
    BY DEF StoreInv, StoreTypeOK, Tables, Values
  <1>3. kv' \in Tables /\ Reply(kv, op[c]) \in Answers
    BY <1>2, StoredType, ReplyType
  <1>4. StoreTypeOK'
    BY <1>1, <1>3 DEF StoreInv, StoreTypeOK, Tables, Values
  <1>5. Insiders'
    BY <1>1 DEF StoreInv, StoreTypeOK, Insiders
  <1>6. Messages' /\ WriterAlone'
    BY DEF StoreInv, StoreTypeOK, Messages, WriterAlone
  <1> QED BY <1>4, <1>5, <1>6 DEF StoreInv

LEMMA AnswerInv == ASSUME StoreInv, NEW c \in Clients, EtcdAnswer(c) PROVE StoreInv'
  <1> USE DEF EtcdAnswer, Move
  <1>1. Keys' = Keys /\ Tables' = Tables
    BY KeysKept
  <1>2. StoreTypeOK'
    BY <1>1 DEF StoreInv, StoreTypeOK
  <1>3. Insiders'
    BY <1>1 DEF StoreInv, StoreTypeOK, Insiders
  <1>4. Messages' /\ WriterAlone'
    BY DEF StoreInv, StoreTypeOK, Messages, WriterAlone
  <1> QED BY <1>2, <1>3, <1>4 DEF StoreInv

LEMMA GiveUpInv == ASSUME StoreInv, NEW c \in Clients, EtcdGiveUp(c) PROVE StoreInv'
  <1> USE DEF EtcdGiveUp, Move, Answered
  <1>1. Keys' = Keys /\ Tables' = Tables
    BY KeysKept
  <1>2. StoreTypeOK'
    BY <1>1, ErrorIsAnswer DEF StoreInv, StoreTypeOK
  <1>3. Insiders'
    BY <1>1 DEF StoreInv, StoreTypeOK, Insiders
  <1>4. Messages' /\ WriterAlone'
    BY DEF StoreInv, StoreTypeOK, Messages, WriterAlone
  <1> QED BY <1>2, <1>3, <1>4 DEF StoreInv

LEMMA LateInv == ASSUME StoreInv, NEW c \in Clients, EtcdLate(c) PROVE StoreInv'
  <1> USE DEF EtcdLate
  <1>1. Keys' = Keys /\ Tables' = Tables
    BY KeysKept
  <1>2. adrift[c] \in Requests /\ kv \in Tables /\ backend = "etcd"
    BY DEF StoreInv, StoreTypeOK, Messages, Tables, Values
  <1>3. kv' \in Tables
    BY <1>2, StoredType
  <1>4. StoreTypeOK'
    BY <1>1, <1>3 DEF StoreInv, StoreTypeOK, Tables, Values
  <1>5. Insiders'
    BY <1>1, <1>2 DEF StoreInv, Insiders
  <1>6. Messages' /\ WriterAlone'
    BY DEF StoreInv, StoreTypeOK, Messages, WriterAlone
  <1> QED BY <1>4, <1>5, <1>6 DEF StoreInv

LEMMA StoreInvInit == Init => StoreInv
  <1> SUFFICES ASSUME Init PROVE StoreInv
    OBVIOUS
  <1>1. StoreTypeOK
    BY StoreAssumption DEF Init, StoreTypeOK
  <1>2. Insiders /\ Messages /\ WriterAlone
    BY DEF Init, Insiders, Messages, WriterAlone
  <1> QED BY <1>1, <1>2 DEF StoreInv

LEMMA StoreInvNext == StoreInv /\ [Next]_vars => StoreInv'
  <1> SUFFICES ASSUME StoreInv, [Next]_vars PROVE StoreInv'
    OBVIOUS
  <1>1. ASSUME NEW c \in Clients, Call(c) \/ Step(c) \/ EtcdLate(c) PROVE StoreInv'
    <2>1. CASE MemoryBegin(c) \/ BoltBegin(c)
      <3>1. /\ Enter(c) /\ backend \in {"memory", "bolt"}
            /\ Writes(op[c]) => writer = None
            /\ backend = "memory" => writer = None /\ (Writes(op[c]) => readers = {})
        BY <2>1 DEF MemoryBegin, BoltBegin
      <3> QED BY <3>1, EnterInv
    <2>2. CASE MemoryFinish(c) \/ BoltCommit(c)
      BY <2>2, InsideEffect, LeaveInv
    <2>3. CASE BoltRollback(c)
      BY <2>3, LeaveInv, ErrorIsAnswer DEF BoltRollback
    <2> QED BY <1>1, <2>1, <2>2, <2>3, CallInv, ReturnInv, ClosedInv, ApplyInv, AnswerInv,
               GiveUpInv, LateInv DEF Step
  <1>2. CASE UNCHANGED vars
    <2>1. Keys' = Keys /\ Tables' = Tables
      BY <1>2, KeysKept DEF vars
    <2> QED BY <1>2, <2>1 DEF vars, StoreInv, StoreTypeOK, Insiders, Messages, WriterAlone
  <1> QED BY <1>1, <1>2, CloseInv, ReopenInv DEF Next

LEMMA StoreInvHolds == Spec => []StoreInv
  BY StoreInvInit, StoreInvNext, PTL DEF Spec

\* Every reachable state has its type, and exactly the clients inside a
\* method of MemoryStore or a transaction of BoltStore hold a lock.
THEOREM StoreTypeCorrect == Spec => []StoreTypeOK
  <1>1. StoreInv => StoreTypeOK
    BY DEF StoreInv
  <1> QED BY <1>1, StoreInvHolds, PTL

\* MemoryStore's maps are never read or written while a writer is inside,
\* however many goroutines call the store.
THEOREM NoMapRaces == Spec => []NoMapRace
  <1>1. StoreInv => NoMapRace
    BY DEF StoreInv, StoreTypeOK, WriterAlone, NoMapRace
  <1> QED BY <1>1, StoreInvHolds, PTL

-----------------------------------------------------------------------------
(* Attachments under their own keys.                                        *)

\* Attachments are stored under their own keys, now and in what the clients
\* inside found; and a Get has the record it asked for, or none.
OwnKeys ==
    /\ Placed(kv)
    /\ \A c \in Clients : st[c] = "inside" => Placed(snap[c])
    /\ \A c \in Clients :
          st[c] \in {"applied", "done"} /\ op[c].op = "GetAttachment" =>
              \A x \in ans[c].recs : x.disk = op[c].disk /\ x.vm = op[c].vm

\* How a step may change the records, what a client found and its answer.
LEMMA OwnKeysStep ==
    ASSUME StoreInv, OwnKeys, KeysDistinct, backend' = backend,
           kv' = kv \/ \E r \in Requests : kv' = Stored(kv, r),
           \A b \in Clients : st'[b] = "inside" =>
              snap'[b] = kv \/ (st[b] = "inside" /\ snap'[b] = snap[b]),
           \A b \in Clients : st'[b] \in {"applied", "done"} =>
              \/ st[b] \in {"applied", "done"} /\ op'[b] = op[b] /\ ans'[b] = ans[b]
              \/ ans'[b] = Refused("error")
              \/ /\ op'[b] \in Requests
                 /\ \E t \in Tables : Placed(t) /\ ans'[b] = Reply(t, op'[b])
    PROVE  OwnKeys'
  <1>1. Placed(kv)'
    <2>1. kv \in Tables
      BY DEF StoreInv, StoreTypeOK, Tables, Values
    <2>2. PICK t : t = kv' /\ Placed(t)
      BY <2>1, StoredPlaced DEF OwnKeys
    <2> QED BY <2>2 DEF Placed, AttKey
  <1>2. ASSUME NEW b \in Clients, st'[b] = "inside" PROVE Placed(snap[b])'
    <2>1. PICK t : t = snap'[b] /\ Placed(t)
      BY <1>2 DEF OwnKeys
    <2> QED BY <2>1 DEF Placed, AttKey
  <1>3. ASSUME NEW b \in Clients, st'[b] \in {"applied", "done"}, op'[b].op = "GetAttachment"
        PROVE  \A x \in ans'[b].recs : x.disk = op'[b].disk /\ x.vm = op'[b].vm
    <2>1. CASE st[b] \in {"applied", "done"} /\ op'[b] = op[b] /\ ans'[b] = ans[b]
      BY <1>3, <2>1 DEF OwnKeys
    <2>2. CASE ans'[b] = Refused("error")
      BY <2>2 DEF Refused
    <2>3. ASSUME op'[b] \in Requests, NEW t \in Tables, Placed(t), ans'[b] = Reply(t, op'[b])
          PROVE  \A x \in ans'[b].recs : x.disk = op'[b].disk /\ x.vm = op'[b].vm
      <3>1. PICK r \in Requests : r = op'[b]
        BY <2>3
      <3> QED BY <1>3, <2>3, <3>1, ReplyOwn
    <2> QED BY <1>3, <2>1, <2>2, <2>3
  <1> QED BY <1>1, <1>2, <1>3 DEF OwnKeys

LEMMA OwnKeysNext ==
    ASSUME StoreInv, OwnKeys, KeysDistinct, [Next]_vars
    PROVE  OwnKeys'
  <1>0. /\ kv \in Tables
        /\ st \in [Clients -> {"idle", "called", "inside", "applied", "done"}]
        /\ op \in [Clients -> Requests \cup {None}]
        /\ snap \in [Clients -> Tables \cup {None}]
        /\ ans \in [Clients -> Answers \cup {None}]
        /\ adrift \in [Clients -> Requests \cup {None}]
        /\ \A c \in Clients : st[c] = "idle" <=> op[c] = None
    BY DEF StoreInv, StoreTypeOK, Tables, Values
  <1>1. ASSUME NEW c \in Clients, Call(c) \/ Return(c) \/ EtcdAnswer(c)
        PROVE OwnKeys'
    BY <1>0, <1>1, OwnKeysStep DEF Call, Return, EtcdAnswer, Move
  <1>2. ASSUME NEW c \in Clients, MemoryBegin(c) \/ BoltBegin(c) PROVE OwnKeys'
    BY <1>0, <1>2, OwnKeysStep DEF MemoryBegin, BoltBegin, Enter, Move
  <1>3. ASSUME NEW c \in Clients, MemoryFinish(c) \/ BoltCommit(c) PROVE OwnKeys'
    <2>1. /\ kv' = Stored(kv, op[c]) /\ op[c] \in Requests
          /\ st[c] = "inside" /\ snap[c] \in Tables /\ Leave(c, Reply(snap[c], op[c]))
      BY <1>3, InsideEffect DEF Effect
    <2>2. Placed(snap[c])
      BY <2>1 DEF OwnKeys
    <2> QED BY <1>0, <2>1, <2>2, OwnKeysStep DEF Leave, Move, Answered
  <1>4. ASSUME NEW c \in Clients, BoltRollback(c) \/ BoltClosed(c) \/ EtcdGiveUp(c)
        PROVE OwnKeys'
    BY <1>0, <1>4, OwnKeysStep DEF BoltRollback, BoltClosed, EtcdGiveUp, Leave, Move, Answered
  <1>5. ASSUME NEW c \in Clients, EtcdApply(c) PROVE OwnKeys'
    <2>1. op[c] \in Requests
      BY <1>0, <1>5 DEF EtcdApply, Move
    <2>2. Placed(kv)
      BY DEF OwnKeys
    <2> QED BY <1>0, <1>5, <2>1, <2>2, OwnKeysStep DEF EtcdApply, Move, Answered
  <1>6. ASSUME NEW c \in Clients, EtcdLate(c) PROVE OwnKeys'
    BY <1>0, <1>6, OwnKeysStep DEF EtcdLate
  <1>7. CASE BoltClose \/ Reopen \/ UNCHANGED vars
    BY <1>0, <1>7, OwnKeysStep DEF BoltClose, Reopen, vars
  <1> QED BY <1>1, <1>2, <1>3, <1>4, <1>5, <1>6, <1>7 DEF Next, Step

LEMMA OwnKeysHold == ASSUME PlainNames PROVE Spec => []OwnKeys
  <1>1. Init => OwnKeys
    BY DEF Init, OwnKeys, Placed, Keys, AttKeys
  <1>2. StoreInv /\ OwnKeys /\ [Next]_vars => OwnKeys'
    BY PlainKeysDistinct, OwnKeysNext
  <1> QED BY <1>1, <1>2, StoreInvHolds, PTL DEF Spec

\* Where names hold no separator, a Get of an attachment returns the record
\* of the (disk, vm) it names or none, in every backend.
THEOREM GetsOwn == ASSUME PlainNames PROVE Spec => []GetsOwnRecord
  <1>1. OwnKeys => GetsOwnRecord
    BY DEF OwnKeys, GetsOwnRecord
  <1> QED BY <1>1, OwnKeysHold, PTL

-----------------------------------------------------------------------------
(* Every backend implements Catalog.                                        *)

\* What Store substitutes for the variables of Catalog.
stageBar == [c \in Clients |->
               IF st[c] \in {"applied", "done"} \/ Decided(c) THEN "done"
               ELSE IF st[c] = "idle" THEN "idle" ELSE "pending"]
ansBar == [c \in Clients |-> IF Decided(c) THEN Reply(snap[c], op[c]) ELSE ans[c]]

LEMMA ViewKept == ASSUME backend' = backend, NEW t, kv' = t PROVE View(kv)' = View(t)
  BY DEF View, AttKey, DiskKey

\* What a snapshot answers does not depend on when it is asked.
LEMMA ReplyKept ==
    ASSUME backend' = backend, NEW c, NEW t, NEW r, snap'[c] = t, op'[c] = r
    PROVE  Reply(snap[c], op[c])' = Reply(t, r)
  <1>1. AttKeys' = AttKeys
    BY DEF AttKeys, AttKey
  <1>2. KeyOf(op[c])' = KeyOf(r)
    BY DEF KeyOf, AttKey
  <1>3. ListAttachments(snap[c], op[c].disk, op[c].vm)' = ListAttachments(t, r.disk, r.vm)
    BY <1>1 DEF ListAttachments
  <1>4. ListDisks(snap[c], op[c].vg)' = ListDisks(t, r.vg)
    BY DEF ListDisks
  <1> QED BY <1>2, <1>3, <1>4 DEF Reply, Passes

\* A step of client c, seen through the mapping.
LEMMA BarStep ==
    ASSUME backend' = backend, NEW c \in Clients, NEW x, NEW y,
           \A b \in Clients \ {c} :
              st'[b] = st[b] /\ op'[b] = op[b] /\ snap'[b] = snap[b] /\ ans'[b] = ans[b],
           stageBar'[c] = x, ansBar'[c] = y
    PROVE  stageBar' = [stageBar EXCEPT ![c] = x] /\ ansBar' = [ansBar EXCEPT ![c] = y]
  <1>1. ASSUME NEW b \in Clients \ {c}
        PROVE  stageBar'[b] = stageBar[b] /\ ansBar'[b] = ansBar[b]
    <2>1. Reply(snap[b], op[b])' = Reply(snap[b], op[b])
      BY ReplyKept
    <2> QED BY <2>1 DEF stageBar, ansBar, Decided
  <1> QED BY <1>1 DEF stageBar, ansBar

\* The clients' stages and answers as Catalog sees them.
LEMMA BarAt ==
    ASSUME NEW c \in Clients
    PROVE  /\ stageBar[c] = IF st[c] \in {"applied", "done"} \/ Decided(c) THEN "done"
                            ELSE IF st[c] = "idle" THEN "idle" ELSE "pending"
           /\ ansBar[c] = IF Decided(c) THEN Reply(snap[c], op[c]) ELSE ans[c]
           /\ stageBar'[c] = IF st'[c] \in {"applied", "done"} \/ Decided(c)' THEN "done"
                             ELSE IF st'[c] = "idle" THEN "idle" ELSE "pending"
           /\ ansBar'[c] = IF Decided(c)' THEN Reply(snap[c], op[c])' ELSE ans'[c]
           /\ Decided(c)' <=> st'[c] = "inside" /\ ~Writes(op'[c])
           /\ stageBar = [stageBar EXCEPT ![c] = stageBar[c]]
           /\ ansBar = [ansBar EXCEPT ![c] = ansBar[c]]
  BY DEF stageBar, ansBar, Decided, Writes, Creates, Deletes

\* The call takes effect at this step.
LEMMA TakesEffect ==
    ASSUME StoreInv, OwnKeys, KeysDistinct, NEW c \in Clients,
           backend' = backend, op' = op, adrift' = adrift,
           \A b \in Clients \ {c} :
              st'[b] = st[b] /\ op'[b] = op[b] /\ snap'[b] = snap[b] /\ ans'[b] = ans[b],
           op[c] \in Requests, kv' = Stored(kv, op[c]),
           stageBar[c] = "pending", stageBar'[c] = "done", ansBar'[c] = Reply(kv, op[c])
    PROVE  C!TakeEffect(c)
  <1>1. kv \in Tables /\ Placed(kv)
    BY DEF StoreInv, StoreTypeOK, OwnKeys, Tables, Values
  <1>2. View(kv)' = C!After(View(kv), op[c])
    <2>1. View(kv)' = View(Stored(kv, op[c]))
      BY ViewKept
    <2> QED BY <1>1, <2>1, StoredView
  <1>3. Reply(kv, op[c]) = C!Answer(View(kv), op[c])
    BY <1>1, ReplyView
  <1>4. /\ stageBar' = [stageBar EXCEPT ![c] = "done"]
        /\ ansBar' = [ansBar EXCEPT ![c] = Reply(kv, op[c])]
    BY BarStep
  <1> QED BY <1>2, <1>3, <1>4 DEF C!TakeEffect, View, stageBar, ansBar

\* The call fails at this step.
LEMMA Fails ==
    ASSUME StoreInv, NEW c \in Clients, backend' = backend, op' = op, kv' = kv,
           adrift' = adrift \/ (adrift[c] = None /\ adrift' = [adrift EXCEPT ![c] = op[c]]),
           \A b \in Clients \ {c} :
              st'[b] = st[b] /\ op'[b] = op[b] /\ snap'[b] = snap[b] /\ ans'[b] = ans[b],
           stageBar[c] = "pending", stageBar'[c] = "done", ansBar'[c] = Refused("error")
    PROVE  C!Fail(c)
  <1>1. View(kv)' = View(kv)
    BY ViewKept
  <1>2. /\ stageBar' = [stageBar EXCEPT ![c] = "done"]
        /\ ansBar' = [ansBar EXCEPT ![c] = Refused("error")]
    BY BarStep
  <1>3. Refused("error") = C!Refused("error")
    BY DEF Refused, C!Refused
  <1> QED BY <1>1, <1>2, <1>3 DEF C!Fail, View, stageBar, ansBar

\* The step cannot be seen.
LEMMA Stutters ==
    ASSUME StoreInv, NEW c \in Clients, backend' = backend, op' = op, kv' = kv, adrift' = adrift,
           \A b \in Clients \ {c} :
              st'[b] = st[b] /\ op'[b] = op[b] /\ snap'[b] = snap[b] /\ ans'[b] = ans[b],
           stageBar'[c] = stageBar[c], ansBar'[c] = ansBar[c]
    PROVE  UNCHANGED C!vars
  <1>1. View(kv)' = View(kv)
    BY ViewKept
  <1>2. stageBar' = stageBar /\ ansBar' = ansBar
    BY BarStep, BarAt
  <1> QED BY <1>1, <1>2 DEF C!vars, View, stageBar, ansBar

LEMMA ClientStepMaps ==
    ASSUME StoreInv, OwnKeys, KeysDistinct, NEW c \in Clients,
           Call(c) \/ Step(c) \/ EtcdLate(c)
    PROVE  C!Next \/ UNCHANGED C!vars
  <1>0. /\ kv \in Tables
        /\ st \in [Clients -> {"idle", "called", "inside", "applied", "done"}]
        /\ op \in [Clients -> Requests \cup {None}]
        /\ snap \in [Clients -> Tables \cup {None}]
        /\ ans \in [Clients -> Answers \cup {None}]
        /\ adrift \in [Clients -> Requests \cup {None}]
        /\ \A b \in Clients : st[b] = "idle" <=> op[b] = None
    BY DEF StoreInv, StoreTypeOK, Tables, Values
  <1>1. CASE Call(c)
    <2> USE DEF Call, Move
    <2>1. View(kv)' = View(kv)
      BY <1>1, ViewKept
    <2>2. stageBar[c] = "idle" /\ stageBar'[c] = "pending" /\ ansBar'[c] = ansBar[c]
      BY <1>0, <1>1, BarAt DEF Decided
    <2>3. stageBar' = [stageBar EXCEPT ![c] = "pending"] /\ ansBar' = ansBar
      BY <1>0, <1>1, <2>2, BarStep, BarAt
    <2>4. C!Call(c)
      BY <1>1, <2>1, <2>2, <2>3 DEF C!Call, View, stageBar, ansBar
    <2> QED BY <2>4 DEF C!Next
  <1>2. CASE Return(c)
    <2> USE DEF Return, Move
    <2>1. View(kv)' = View(kv)
      BY <1>2, ViewKept
    <2>2. stageBar[c] = "done" /\ stageBar'[c] = "idle" /\ ansBar'[c] = None
      BY <1>0, <1>2, BarAt DEF Decided
    <2>3. /\ stageBar' = [stageBar EXCEPT ![c] = "idle"]
          /\ ansBar' = [ansBar EXCEPT ![c] = None]
      BY <1>0, <1>2, <2>2, BarStep
    <2>4. C!Return(c)
      BY <1>2, <2>1, <2>2, <2>3 DEF C!Return, View, stageBar, ansBar
    <2> QED BY <2>4 DEF C!Next
  <1>3. CASE MemoryBegin(c) \/ BoltBegin(c)
    <2>1. Enter(c)
      BY <1>3 DEF MemoryBegin, BoltBegin
    <2> USE DEF Enter, Move
    <2>2. op[c] \in Requests /\ st'[c] = "inside" /\ snap'[c] = kv /\ op'[c] = op[c]
      BY <1>0, <2>1
    <2>3. CASE Writes(op[c])
      <3>1. stageBar'[c] = stageBar[c] /\ ansBar'[c] = ansBar[c]
        BY <1>0, <2>1, <2>2, <2>3, BarAt DEF Decided
      <3> QED BY <1>0, <2>1, <3>1, Stutters
    <2>4. CASE ~Writes(op[c])
      <3>1. Reply(snap[c], op[c])' = Reply(kv, op[c])
        BY <2>1, <2>2, ReplyKept
      <3>2. /\ stageBar[c] = "pending" /\ stageBar'[c] = "done"
            /\ ansBar'[c] = Reply(kv, op[c])
        BY <1>0, <2>1, <2>2, <2>4, <3>1, BarAt DEF Decided
      <3>3. kv' = Stored(kv, op[c])
        BY <2>1, <2>4 DEF Stored
      <3>4. /\ backend' = backend /\ op' = op /\ adrift' = adrift
            /\ \A b \in Clients \ {c} :
                 st'[b] = st[b] /\ op'[b] = op[b] /\ snap'[b] = snap[b] /\ ans'[b] = ans[b]
        BY <1>0, <2>1
      <3>5. C!TakeEffect(c)
        BY <2>2, <3>2, <3>3, <3>4, TakesEffect
      <3> QED BY <3>5 DEF C!Next
    <2> QED BY <2>3, <2>4
  <1>4. CASE MemoryFinish(c) \/ BoltCommit(c)
    <2>1. /\ kv' = Stored(kv, op[c]) /\ op[c] \in Requests
          /\ st[c] = "inside" /\ Leave(c, Reply(snap[c], op[c]))
      BY <1>4, InsideEffect DEF Effect
    <2> USE DEF Leave, Move, Answered
    <2>2. st'[c] = "done" /\ ans'[c] = Reply(snap[c], op[c])
      BY <1>0, <2>1
    <2>3. stageBar'[c] = "done" /\ ansBar'[c] = Reply(snap[c], op[c])
      BY <2>2, BarAt
    <2>4. CASE Writes(op[c])
      <3>1. stageBar[c] = "pending" /\ snap[c] = kv
        BY <2>1, <2>4, BarAt DEF Decided, StoreInv, Insiders
      <3>2. C!TakeEffect(c)
        BY <1>0, <2>1, <2>3, <3>1, TakesEffect
      <3> QED BY <3>2 DEF C!Next
    <2>5. CASE ~Writes(op[c])
      <3>1. kv' = kv
        BY <2>1, <2>5 DEF Stored
      <3>2. stageBar[c] = "done" /\ ansBar[c] = Reply(snap[c], op[c])
        BY <2>1, <2>5, BarAt DEF Decided
      <3> QED BY <1>0, <2>1, <2>3, <3>1, <3>2, Stutters
    <2> QED BY <2>4, <2>5
  <1>5. CASE BoltRollback(c) \/ BoltClosed(c)
    <2> USE DEF BoltRollback, BoltClosed, Leave, Move, Answered
    <2>1. stageBar[c] = "pending" /\ stageBar'[c] = "done" /\ ansBar'[c] = Refused("error")
      BY <1>0, <1>5, BarAt DEF Decided
    <2>2. C!Fail(c)
      BY <1>0, <1>5, <2>1, Fails
    <2> QED BY <2>2 DEF C!Next
  <1>6. CASE EtcdApply(c)
    <2> USE DEF EtcdApply, Move, Answered
    <2>1. /\ stageBar[c] = "pending" /\ stageBar'[c] = "done"
          /\ ansBar'[c] = Reply(kv, op[c]) /\ op[c] \in Requests
      BY <1>0, <1>6, BarAt DEF Decided
    <2>2. C!TakeEffect(c)
      BY <1>0, <1>6, <2>1, TakesEffect
    <2> QED BY <2>2 DEF C!Next
  <1>7. CASE EtcdAnswer(c)
    <2> USE DEF EtcdAnswer, Move
    <2>1. stageBar'[c] = stageBar[c] /\ ansBar'[c] = ansBar[c]
      BY <1>0, <1>7, BarAt DEF Decided
    <2> QED BY <1>0, <1>7, <2>1, Stutters
  <1>8. CASE EtcdGiveUp(c)
    <2> USE DEF EtcdGiveUp, Move, Answered
    <2>1. stageBar'[c] = "done" /\ ansBar'[c] = Refused("error")
      BY <1>0, <1>8, BarAt DEF Decided
    <2>2. CASE st[c] = "called"
      <3>1. stageBar[c] = "pending"
        BY <2>2, BarAt DEF Decided
      <3>2. C!Fail(c)
        BY <1>0, <1>8, <2>1, <2>2, <3>1, Fails
      <3> QED BY <3>2 DEF C!Next
    <2>3. CASE st[c] = "applied"
      <3>1. stageBar[c] = "done"
        BY <2>3, BarAt
      <3>2. stageBar' = stageBar /\ ansBar' = [ansBar EXCEPT ![c] = Refused("error")]
        BY <1>0, <1>8, <2>1, <3>1, BarStep, BarAt
      <3>3. View(kv)' = View(kv)
        BY <1>8, ViewKept
      <3>4. Refused("error") = C!Refused("error")
        BY DEF Refused, C!Refused
      <3>5. C!LoseAnswer(c)
        BY <1>8, <2>3, <3>1, <3>2, <3>3, <3>4 DEF C!LoseAnswer, View, stageBar, ansBar
      <3> QED BY <3>5 DEF C!Next
    <2> QED BY <1>8, <2>2, <2>3
  <1>9. CASE EtcdLate(c)
    <2> USE DEF EtcdLate
    <2>1. adrift[c] \in Requests
      BY <1>0, <1>9
    <2>2. View(kv)' \in {View(kv), C!After(View(kv), adrift[c])}
      <3>1. View(Stored(kv, adrift[c])) = C!After(View(kv), adrift[c])
        BY <1>0, <2>1, StoredView
      <3> QED BY <1>9, <3>1, ViewKept
    <2>3. stageBar' = stageBar /\ ansBar' = ansBar
      <3>1. stageBar'[c] = stageBar[c] /\ ansBar'[c] = ansBar[c]
        <4>1. Reply(snap[c], op[c])' = Reply(snap[c], op[c])
          BY <1>9, ReplyKept
        <4> QED BY <1>9, <4>1, BarAt DEF Decided
      <3> QED BY <1>9, <3>1, BarStep, BarAt
    <2>4. C!Settle(c)
      BY <1>9, <2>2, <2>3 DEF C!Settle, View, stageBar, ansBar
    <2> QED BY <2>4 DEF C!Next
  <1> QED BY <1>1, <1>2, <1>3, <1>4, <1>5, <1>6, <1>7, <1>8, <1>9 DEF Step

LEMMA StepMaps ==
    ASSUME StoreInv, OwnKeys, KeysDistinct, [Next]_vars
    PROVE  [C!Next]_C!vars
  <1>1. CASE BoltClose \/ UNCHANGED vars
    <2> USE DEF BoltClose, vars
    <2>1. View(kv)' = View(kv)
      BY <1>1, ViewKept
    <2>2. stageBar' = stageBar
      BY <1>1 DEF stageBar, Decided
    <2>3. \A c \in Clients : Reply(snap[c], op[c])' = Reply(snap[c], op[c])
      BY <1>1, ReplyKept
    <2>4. ansBar' = ansBar
      BY <1>1, <2>3 DEF ansBar, Decided
    <2>5. UNCHANGED C!vars
      BY <1>1, <2>1, <2>2, <2>4 DEF C!vars, View, stageBar, ansBar
    <2> QED BY <2>5
  <1>2. CASE Reopen
    <2> USE DEF Reopen
    <2>1. View(kv)' = View(kv)
      BY <1>2, ViewKept
    <2>2. stageBar' = [c \in Clients |-> "idle"] /\ ansBar' = [c \in Clients |-> None]
      BY <1>2 DEF stageBar, ansBar, Decided
    <2>3. C!Restart
      BY <1>2, <2>1, <2>2 DEF C!Restart, View, stageBar, ansBar
    <2> QED BY <2>3 DEF C!Next
  <1> QED BY <1>1, <1>2, ClientStepMaps DEF Next

\* Where names hold no separator, MemoryStore, BoltStore and EtcdStore all
\* do what Catalog says, for any number of clients and any requests: calls
\* take effect at one instant, creating only what is absent, and what was
\* acknowledged survives a restart.
THEOREM StoreImplementsCatalog == ASSUME PlainNames PROVE Spec => ImplementsCatalog
  <1>1. Init => C!Init
    <2> SUFFICES ASSUME Init PROVE C!Init
      OBVIOUS
    <2>1. View(kv) = [disks |-> [d \in Disks |-> None], atts |-> [k \in Disks \X VMs |-> None]]
      <3>1. /\ \A d \in Disks : DiskKey(d) \in Keys
            /\ \A k \in Disks \X VMs : AttKey(k[1], k[2]) \in Keys
        BY DEF Keys, AttKeys
      <3>2. \A k \in Keys : kv[k] = None
        BY DEF Init
      <3> QED BY <3>1, <3>2 DEF View
    <2>2. stageBar = [c \in Clients |-> "idle"] /\ ansBar = [c \in Clients |-> None]
      BY DEF Init, stageBar, ansBar, Decided
    <2> QED BY <2>1, <2>2 DEF Init, C!Init, View, stageBar, ansBar
  <1>2. StoreInv /\ OwnKeys /\ [Next]_vars => [C!Next]_C!vars
    BY PlainKeysDistinct, StepMaps
  <1> QED BY <1>1, <1>2, StoreInvHolds, OwnKeysHold, PTL DEF Spec, ImplementsCatalog, C!Spec
=============================================================================

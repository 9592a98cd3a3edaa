---------------------------- MODULE MCHomeProofs ----------------------------
(***************************************************************************)
(* That programs which share a keyring keep what their user was told, that *)
(* a page keeps its identity, and that a visitor of a shared folder gets   *)
(* what its rows name: for any contacts, seeds, folders and bounds.        *)
(***************************************************************************)
EXTENDS MCHome, Integers, Sequences, FiniteSetTheorems, SequenceTheorems, WellFoundedInduction, TLAPS

-----------------------------------------------------------------------------
(* The keyring. *)

Saving(p) == at[p] \in {"opened", "written"}

RingTypes ==
  /\ {shared, text, sure, never} \subseteq SUBSET Contacts /\ {temp, page, together} \subseteq BOOLEAN
  /\ at \in [Programs -> {"off", "ready", "opened", "written"}]
  /\ file \in [Programs -> {"none", "tmp", "ring", "lost"}]
  /\ memory \in [Programs -> SUBSET Contacts] /\ about \in [Programs -> SUBSET Contacts]

\* Programs that take turns: the one that runs agrees with the user, and what
\* it writes is what it holds.
InTurn ==
  /\ sure \subseteq shared /\ never \cap shared = {}
  /\ \A p, q \in Programs : at[p] # "off" /\ at[q] # "off" => p = q
  /\ \A p \in Programs :
       /\ at[p] # "off" => sure \subseteq memory[p] /\ never \cap memory[p] = {}
       /\ Saving(p) => file[p] = "tmp" /\ temp
       /\ at[p] = "opened" => text = {}
       /\ at[p] = "written" => text = memory[p]
TurnInv == ~together => InTurn

\* Peers that run at once: a temporary file holds what its writers hold, and
\* the keyring holds a contact that nobody does only while one is being saved.
Drops ==
  /\ \A p \in Programs : file[p] = "tmp" => temp
  /\ \A i \in text : \E p \in Programs : at[p] = "written" /\ file[p] = "tmp" /\ i \in memory[p]
  /\ Ring!Running # {} =>
       \/ \A i \in shared : \E p \in Programs : i \in memory[p]
       \/ \E p \in Programs : Saving(p) /\ file[p] = "tmp"
DropInv == ~page => Drops

RingInv == RingTypes /\ TurnInv /\ DropInv

LEMMA RingInit == Ring!Init => RingInv
<1>1. Ring!Init => RingTypes
  BY DEF Ring!Init, RingTypes
<1>2. Ring!Init => InTurn
  BY DEF Ring!Init, InTurn, Saving
<1>3. Ring!Init => Drops
  BY DEF Ring!Init, Drops, Ring!Running
<1> QED
  BY <1>1, <1>2, <1>3 DEF RingInv, TurnInv, DropInv
\* A change of the contacts ids, by accept, remove or importContacts.
LEMMA ChangesKeeps ==
  ASSUME RingInv, UNCHANGED Ring!setting, NEW p \in Programs, NEW ids \in SUBSET Contacts,
         NEW m \in SUBSET Contacts, m \ ids = memory[p] \ ids, Ring!Changes(p, ids, m)
  PROVE  RingInv'
<1> USE DEF Ring!setting, Ring!disk, Ring!Tell, Ring!Unsay
<1>1. /\ at[p] = "ready" /\ memory' = [memory EXCEPT ![p] = m]
      /\ page' = page /\ together' = together
  BY DEF Ring!Changes
<1>2. CASE Ring!PageSaves(p, ids, m)
  <2>1. RingTypes'
    BY <1>1, <1>2 DEF RingInv, RingTypes, Ring!PageSaves
  <2>2. ASSUME InTurn PROVE InTurn'
    BY <1>1, <1>2, <2>2 DEF RingInv, RingTypes, InTurn, Saving, Ring!PageSaves
  <2> QED
    BY <1>1, <1>2, <2>1, <2>2 DEF RingInv, TurnInv, DropInv, Ring!PageSaves
<1>3. CASE Ring!PageSaveRaises(ids)
  <2>1. RingTypes'
    BY <1>1, <1>3 DEF RingInv, RingTypes, Ring!PageSaveRaises
  <2>2. ASSUME InTurn PROVE InTurn'
    BY <1>1, <1>3, <2>2 DEF RingInv, RingTypes, InTurn, Saving, Ring!PageSaveRaises
  <2> QED
    BY <1>1, <1>3, <2>1, <2>2 DEF RingInv, TurnInv, DropInv, Ring!PageSaveRaises
<1>4. CASE Ring!Opens(p, ids)
  <2>1. RingTypes'
    BY <1>1, <1>4 DEF RingInv, RingTypes, Ring!Opens
  <2>2. ASSUME InTurn PROVE InTurn'
    BY <1>1, <1>4, <2>2 DEF RingInv, RingTypes, InTurn, Saving, Ring!Opens
  <2>3. ASSUME Drops PROVE Drops'
    BY <1>1, <1>4, <2>3 DEF RingInv, RingTypes, Drops, Saving, Ring!Opens, Ring!Running
  <2> QED
    BY <1>1, <1>4, <2>1, <2>2, <2>3 DEF RingInv, TurnInv, DropInv
<1> QED
  BY <1>2, <1>3, <1>4 DEF Ring!Changes

\* Starting to run, and ceasing.
LEMMA StartKeeps ==
  ASSUME RingInv, UNCHANGED Ring!setting, NEW p \in Programs, Ring!Start(p)
  PROVE  RingInv'
<1> USE DEF Ring!setting, Ring!disk, Ring!told, Ring!Start
<1>1. RingTypes'
  BY DEF RingInv, RingTypes
<1>2. ASSUME InTurn, ~together PROVE InTurn'
  BY <1>2 DEF RingInv, RingTypes, InTurn, Saving, Ring!Running
<1>3. ASSUME Drops PROVE Drops'
  <2>1. \A i \in shared' : i \in memory'[p]
    BY DEF RingInv, RingTypes
  <2> QED
    BY <1>3, <2>1 DEF RingInv, RingTypes, Drops, Saving
<1> QED
  BY <1>1, <1>2, <1>3 DEF RingInv, TurnInv, DropInv

LEMMA QuitKeeps ==
  ASSUME RingInv, UNCHANGED Ring!setting, NEW p \in Programs, Ring!Quit(p) \/ Ring!ReplaceRaises(p)
  PROVE  RingInv'
<1> USE DEF Ring!setting, Ring!disk, Ring!told, Ring!Quit, Ring!ReplaceRaises
<1>1. RingTypes'
  BY DEF RingInv, RingTypes
<1>2. ASSUME InTurn PROVE InTurn'
  BY <1>2 DEF RingInv, RingTypes, InTurn, Saving
<1>3. ASSUME Drops PROVE Drops'
  <2>1. \A q \in Programs : Saving(q) /\ file[q] = "tmp" => Saving(q)' /\ file'[q] = "tmp"
    BY <1>3 DEF RingInv, RingTypes, Drops, Saving
  <2>2. \A q \in Programs : at[q] = "written" /\ file[q] = "tmp" => at'[q] = "written" /\ file'[q] = "tmp"
    BY <1>3 DEF RingInv, RingTypes, Drops
  <2>3. Ring!Running' # {} => Ring!Running # {}
    BY DEF RingInv, RingTypes, Ring!Running
  <2>4. \A q \in Programs : file'[q] = "tmp" => file[q] = "tmp"
    BY DEF RingInv, RingTypes
  <2>5. UNCHANGED <<shared, temp, text, memory>>
    OBVIOUS
  <2> QED
    BY <1>3, <2>1, <2>2, <2>3, <2>4, <2>5 DEF Drops
<1> QED
  BY <1>1, <1>2, <1>3 DEF RingInv, TurnInv, DropInv

LEMMA ImportRaisesKeeps ==
  ASSUME RingInv, UNCHANGED Ring!setting, NEW p \in Programs, NEW ids \in SUBSET Contacts,
         Ring!ImportRaises(p, ids)
  PROVE  RingInv'
<1> USE DEF Ring!setting, Ring!disk, Ring!ImportRaises
<1>1. RingTypes'
  BY DEF RingInv, RingTypes
<1>2. ASSUME InTurn PROVE InTurn'
  BY <1>2 DEF RingInv, RingTypes, InTurn, Saving
<1>3. ASSUME Drops PROVE Drops'
  BY <1>3 DEF RingInv, RingTypes, Drops, Saving, Ring!Running
<1> QED
  BY <1>1, <1>2, <1>3 DEF RingInv, TurnInv, DropInv
\* What is written over a file is new, or was there.
LEMMA OverAdds ==
  ASSUME NEW old \in SUBSET Contacts, NEW new \in SUBSET Contacts, NEW s \in Ring!Over(old, new)
  PROVE  /\ s \subseteq new \cup old
         /\ old = {} => s = new
BY DEF Ring!Over

LEMMA WriteKeeps ==
  ASSUME RingInv, UNCHANGED Ring!setting, NEW p \in Programs, Ring!Write(p)
  PROVE  RingInv'
<1> DEFINE m == memory[p]
<1>1. /\ UNCHANGED <<page, together, temp, file, memory, about, sure, never>>
      /\ at[p] = "opened" /\ at' = [at EXCEPT ![p] = "written"]
  BY DEF Ring!Write, Ring!setting, Ring!told
<1>2. CASE file[p] = "tmp"
  <2>1. text' \in Ring!Over(text, m) /\ UNCHANGED shared
    BY <1>2 DEF Ring!Write
  <2>2. m \in SUBSET Contacts /\ text \in SUBSET Contacts
    BY DEF RingInv, RingTypes
  <2>3. text' \subseteq m \cup text /\ (text = {} => text' = m)
    <3> HIDE DEF m
    <3> QED
      BY <2>1, <2>2, OverAdds
  <2>4. RingTypes'
    BY <1>1, <2>1, <2>2, <2>3 DEF RingInv, RingTypes
  <2>5. ASSUME InTurn PROVE InTurn'
    BY <1>1, <2>1, <2>3, <2>5 DEF RingInv, RingTypes, InTurn, Saving
  <2>6. ASSUME Drops PROVE Drops'
    BY <1>1, <1>2, <2>1, <2>3, <2>6 DEF RingInv, RingTypes, Drops, Saving, Ring!Running
  <2> QED
    BY <1>1, <2>4, <2>5, <2>6 DEF RingInv, TurnInv, DropInv
<1>3. CASE file[p] = "ring"
  <2>1. shared' \in Ring!Over(shared, m) /\ UNCHANGED text
    BY <1>3 DEF Ring!Write
  <2>2. m \in SUBSET Contacts /\ shared \in SUBSET Contacts
    BY DEF RingInv, RingTypes
  <2>3. shared' \subseteq m \cup shared
    <3> HIDE DEF m
    <3> QED
      BY <2>1, <2>2, OverAdds
  <2>4. RingTypes'
    BY <1>1, <2>1, <2>2, <2>3 DEF RingInv, RingTypes
  <2>5. ~InTurn
    BY <1>1, <1>3 DEF InTurn, Saving
  <2>6. ASSUME Drops PROVE Drops'
    BY <1>1, <1>3, <2>1, <2>3, <2>6 DEF RingInv, RingTypes, Drops, Saving, Ring!Running
  <2> QED
    BY <1>1, <2>4, <2>5, <2>6 DEF RingInv, TurnInv, DropInv
<1>4. CASE file[p] \notin {"tmp", "ring"}
  <2>1. UNCHANGED <<shared, text>>
    BY <1>4 DEF Ring!Write
  <2>2. RingTypes'
    BY <1>1, <2>1 DEF RingInv, RingTypes
  <2>3. ~InTurn
    BY <1>1, <1>4 DEF InTurn, Saving
  <2>4. ASSUME Drops PROVE Drops'
    BY <1>1, <1>4, <2>1, <2>4 DEF RingInv, RingTypes, Drops, Saving, Ring!Running
  <2> QED
    BY <1>1, <2>2, <2>3, <2>4 DEF RingInv, TurnInv, DropInv
<1> QED
  BY <1>2, <1>3, <1>4

LEMMA ReplaceKeeps ==
  ASSUME RingInv, UNCHANGED Ring!setting, NEW p \in Programs, Ring!Replace(p)
  PROVE  RingInv'
<1>1. /\ UNCHANGED <<page, together, memory, about>>
      /\ at[p] = "written" /\ at' = [at EXCEPT ![p] = "ready"]
      /\ temp /\ temp' = FALSE /\ shared' = text /\ text' = {}
      /\ Ring!Tell(about[p], memory[p])
  BY DEF Ring!Replace, Ring!setting
<1>2. /\ file' \in [Programs -> {"none", "tmp", "ring", "lost"}]
      /\ \A q \in Programs : file'[q] # "tmp"
  <2>1. \A q \in Programs : file[q] \in {"none", "tmp", "ring", "lost"}
    BY DEF RingInv, RingTypes
  <2> QED
    BY <2>1 DEF Ring!Replace
<1>3. RingTypes'
  BY <1>1, <1>2 DEF RingInv, RingTypes, Ring!Tell
<1>4. ASSUME InTurn PROVE InTurn'
  BY <1>1, <1>4 DEF RingInv, RingTypes, InTurn, Saving, Ring!Tell
<1>5. ASSUME Drops PROVE Drops'
  <2>1. \A i \in shared' : \E q \in Programs : i \in memory'[q]
    BY <1>1, <1>5 DEF Drops
  <2> QED
    BY <1>1, <1>2, <2>1 DEF Drops
<1> QED
  BY <1>1, <1>3, <1>4, <1>5 DEF RingInv, TurnInv, DropInv

LEMMA RingStep == RingInv /\ [Ring!Next]_(Ring!vars) => RingInv'
<1> SUFFICES ASSUME RingInv, [Ring!Next]_(Ring!vars) PROVE RingInv'
  OBVIOUS
<1>1. CASE UNCHANGED Ring!vars
  BY <1>1 DEF Ring!vars, RingInv, RingTypes, TurnInv, InTurn, Saving, DropInv, Drops, Ring!Running
<1>2. CASE Ring!Next
  <2>1. UNCHANGED Ring!setting
    BY <1>2 DEF Ring!Next
  <2>2. ASSUME NEW p \in Programs, NEW i \in Contacts, Ring!Accept(p, i) PROVE RingInv'
    <3>1. memory[p] \in SUBSET Contacts
      BY DEF RingInv, RingTypes
    <3> QED
      BY <2>1, <2>2, <3>1, ChangesKeeps, {i} \in SUBSET Contacts, memory[p] \cup {i} \in SUBSET Contacts,
         (memory[p] \cup {i}) \ {i} = memory[p] \ {i} DEF Ring!Accept
  <2>3. ASSUME NEW p \in Programs, NEW i \in Contacts, Ring!Remove(p, i) PROVE RingInv'
    <3>1. memory[p] \in SUBSET Contacts
      BY DEF RingInv, RingTypes
    <3> QED
      BY <2>1, <2>3, <3>1, ChangesKeeps, {i} \in SUBSET Contacts, memory[p] \ {i} \in SUBSET Contacts,
         (memory[p] \ {i}) \ {i} = memory[p] \ {i} DEF Ring!Remove
  <2>4. ASSUME NEW p \in Programs, NEW ids \in SUBSET Contacts, Ring!Import(p, ids) PROVE RingInv'
    <3>1. memory[p] \in SUBSET Contacts
      BY DEF RingInv, RingTypes
    <3> QED
      BY <2>1, <2>4, <3>1, ChangesKeeps, memory[p] \cup ids \in SUBSET Contacts,
         (memory[p] \cup ids) \ ids = memory[p] \ ids DEF Ring!Import
  <2> QED
    BY <1>2, <2>1, <2>2, <2>3, <2>4, StartKeeps, QuitKeeps, WriteKeeps, ReplaceKeeps, ImportRaisesKeeps
    DEF Ring!Next
<1> QED
  BY <1>1, <1>2

LEMMA RingMeans == RingInv => KeyringShared
<1> SUFFICES ASSUME RingInv PROVE KeyringShared
  OBVIOUS
<1>1. Ring!TypeOK
  BY DEF RingInv, RingTypes, Ring!TypeOK
<1>2. Ring!TurnsKeep
  BY DEF RingInv, TurnInv, InTurn, Ring!TurnsKeep, Ring!ToldIsKept
<1>3. Ring!NoGhosts
  BY DEF RingInv, RingTypes, DropInv, Drops, Saving, Ring!NoGhosts, Ring!Running
<1> QED
  BY <1>1, <1>2, <1>3 DEF KeyringShared

\* Only the part of the behaviour that is the keyring's changes it.
LEMMA RingMoves == [MCNext]_<<part, vars, store, rings, folder>> => [Ring!Next]_(Ring!vars)
BY DEF MCNext, rings, Ring!vars

\* What the strengthening is for: in every state of every behaviour.
THEOREM RingInvariant == MCSpec => []RingInv
<1>1. MCInit => RingInv
  BY RingInit DEF MCInit
<1>2. RingInv /\ [MCNext]_<<part, vars, store, rings, folder>> => RingInv'
  BY RingMoves, RingStep
<1> QED
  BY <1>1, <1>2, PTL DEF MCSpec

\* Programs that take turns lose nothing that one of them told the user of a
\* contact, in whatever order they run, fail to save and stop; and of those that
\* save over each other's temporary file none brings back a contact that all of
\* them have dropped.
THEOREM KeyringKept == MCSpec => []KeyringShared
BY RingInvariant, RingMeans, PTL
-----------------------------------------------------------------------------
(* The seed. *)

\* What is so of the calls that the keychain has not served: the page's come
\* after those whose page is gone, and those that save have a seed.
Ordered(q) == \A j, k \in DOMAIN q : j < k /\ q[j].page => q[k].page
Waited(q) == \A k \in DOMAIN q : q[k].page
Real(q) == \A k \in DOMAIN q : q[k].op = "save" => q[k].seed \in PageSeeds
Restores(q) == \A k \in DOMAIN q : q[k].op = "save" => q[k].task = "restore" /\ q[k].seed \in Backups

Queued ==
  /\ Ordered(calls) /\ Real(calls)
  /\ ~Waited(calls) => desktop /\ ident = None /\ told = None

\* The identity in use is where the next start looks, or at least somewhere.
Kept ==
  /\ ~desktop => keychain = None /\ (ident # None => ident = local)
  /\ desktop /\ Store!Answers => local = None /\ (ident # None => ident = keychain)
  /\ ~cleared /\ ident # None => ident \in {keychain, local}

\* A page that was opened with an identity only saves what it restores.
Owner ==
  Store!Answers /\ owned # None =>
    /\ Store!Lookup(TRUE) \in {owned} \cup Backups
    /\ told # None => Store!Lookup(TRUE) = told
    /\ Restores(calls)

SeedInv == Store!TypeOK /\ Queued /\ Kept /\ Owner
\* What the queue of calls does: one more at its end, one served at its head,
\* and a reload, after which nobody waits for those that were there.
LEMMA AppendCall ==
  ASSUME NEW q \in Seq(Store!Call), NEW c \in Store!Call, c.page
  PROVE  /\ Append(q, c) \in Seq(Store!Call)
         /\ Ordered(q) => Ordered(Append(q, c))
         /\ Waited(q) => Waited(Append(q, c))
         /\ Waited(Append(q, c)) => Waited(q)
         /\ Real(q) /\ (c.op = "save" => c.seed \in PageSeeds) => Real(Append(q, c))
         /\ Restores(q) /\ (c.op = "save" => c.task = "restore" /\ c.seed \in Backups)
              => Restores(Append(q, c))
<1> DEFINE r == Append(q, c)
<1>1. /\ r \in Seq(Store!Call) /\ DOMAIN r = 1..Len(q) + 1 /\ DOMAIN q = 1..Len(q) /\ Len(q) \in Nat
      /\ r[Len(q) + 1] = c /\ \A k \in DOMAIN q : r[k] = q[k]
  OBVIOUS
<1>2. \A k \in DOMAIN r : k \in DOMAIN q \/ k = Len(q) + 1
  BY <1>1
<1>3. \A j, k \in DOMAIN r : j < k => j \in DOMAIN q
  BY <1>1
<1> HIDE DEF r
<1>4. \A k \in DOMAIN q : k \in DOMAIN r
  BY <1>1
<1>5. Ordered(q) => Ordered(r)
  BY <1>1, <1>2, <1>3 DEF Ordered
<1>6. (Waited(q) => Waited(r)) /\ (Waited(r) => Waited(q))
  BY <1>1, <1>2, <1>4 DEF Waited
<1>7. Real(q) /\ (c.op = "save" => c.seed \in PageSeeds) => Real(r)
  BY <1>1, <1>2 DEF Real
<1>8. Restores(q) /\ (c.op = "save" => c.task = "restore" /\ c.seed \in Backups) => Restores(r)
  BY <1>1, <1>2 DEF Restores
<1> QED
  BY <1>1, <1>5, <1>6, <1>7, <1>8 DEF r

LEMMA ServeCall ==
  ASSUME NEW q \in Seq(Store!Call), q # <<>>
  PROVE  /\ Tail(q) \in Seq(Store!Call) /\ Head(q) \in Store!Call
         /\ Ordered(q) => Ordered(Tail(q)) /\ (Head(q).page => Waited(q))
         /\ Waited(q) => Waited(Tail(q)) /\ Head(q).page
         /\ Real(q) => Real(Tail(q)) /\ (Head(q).op = "save" => Head(q).seed \in PageSeeds)
         /\ Restores(q) => /\ Restores(Tail(q))
                           /\ Head(q).op = "save" => Head(q).task = "restore" /\ Head(q).seed \in Backups
<1> DEFINE r == Tail(q)
<1>1. /\ r \in Seq(Store!Call) /\ DOMAIN r = 1..Len(q) - 1 /\ DOMAIN q = 1..Len(q) /\ Len(q) \in Nat \ {0}
      /\ Head(q) = q[1] /\ q[1] \in Store!Call /\ 1 \in DOMAIN q
      /\ \A k \in DOMAIN r : r[k] = q[k + 1]
  OBVIOUS
<1>2. \A k \in DOMAIN r : k + 1 \in DOMAIN q
  BY <1>1
<1>3. \A j, k \in DOMAIN r : j < k => j + 1 < k + 1
  BY <1>1
<1>4. \A k \in DOMAIN q : k = 1 \/ 1 < k
  BY <1>1
<1> HIDE DEF r
<1>5. Ordered(q) => Ordered(r) /\ (q[1].page => Waited(q))
  BY <1>1, <1>2, <1>3, <1>4 DEF Ordered, Waited
<1>6. Waited(q) => Waited(r) /\ q[1].page
  BY <1>1, <1>2 DEF Waited
<1>7. Real(q) => Real(r) /\ (q[1].op = "save" => q[1].seed \in PageSeeds)
  BY <1>1, <1>2 DEF Real
<1>8. Restores(q) => Restores(r) /\ (q[1].op = "save" => q[1].task = "restore" /\ q[1].seed \in Backups)
  BY <1>1, <1>2 DEF Restores
<1> QED
  BY <1>1, <1>5, <1>6, <1>7, <1>8 DEF r

Orphans(q) == [k \in DOMAIN q |-> [q[k] EXCEPT !.page = FALSE]]

LEMMA OrphanCalls ==
  ASSUME NEW q \in Seq(Store!Call)
  PROVE  /\ Orphans(q) \in Seq(Store!Call)
         /\ Ordered(Orphans(q))
         /\ Real(q) => Real(Orphans(q))
         /\ (\A k \in DOMAIN q : q[k].op # "save") => Restores(Orphans(q))
         /\ Waited(Orphans(q)) => q = <<>>
<1> DEFINE r == Orphans(q)
<1>1. \A k \in DOMAIN q : /\ [q[k] EXCEPT !.page = FALSE] \in Store!Call
                          /\ [q[k] EXCEPT !.page = FALSE].page = FALSE
                          /\ [q[k] EXCEPT !.page = FALSE].op = q[k].op
                          /\ [q[k] EXCEPT !.page = FALSE].seed = q[k].seed
  <2> SUFFICES ASSUME NEW k \in DOMAIN q
               PROVE  /\ [q[k] EXCEPT !.page = FALSE] \in Store!Call
                      /\ [q[k] EXCEPT !.page = FALSE].page = FALSE
                      /\ [q[k] EXCEPT !.page = FALSE].op = q[k].op
                      /\ [q[k] EXCEPT !.page = FALSE].seed = q[k].seed
    OBVIOUS
  <2>1. q[k] \in Store!Call
    OBVIOUS
  <2> QED
    BY <2>1 DEF Store!Call
<1>2. /\ DOMAIN r = DOMAIN q
      /\ \A k \in DOMAIN q : r[k] \in Store!Call /\ r[k].page = FALSE /\ r[k].op = q[k].op /\ r[k].seed = q[k].seed
  BY <1>1 DEF Orphans
<1>3. DOMAIN q = 1..Len(q) /\ Len(q) \in Nat /\ (Len(q) = 0 => q = <<>>) /\ (Len(q) # 0 => 1 \in DOMAIN q)
  OBVIOUS
<1>4. r \in Seq(Store!Call)
  BY <1>1, <1>3 DEF Orphans
<1> HIDE DEF r
<1> QED
  BY <1>2, <1>3, <1>4 DEF r, Ordered, Real, Restores, Waited
LEMMA LoadCall ==
  ASSUME NEW t \in Store!Tasks
  PROVE  Store!Load(t) \in Store!Call /\ Store!Load(t).page /\ Store!Load(t).op = "load"
BY DEF Store!Load, Store!Call

LEMMA SaveCall ==
  ASSUME NEW t \in Store!Tasks, NEW s \in PageSeeds
  PROVE  /\ Store!Save(t, s) \in Store!Call /\ Store!Save(t, s).page /\ Store!Save(t, s).op = "save"
         /\ Store!Save(t, s).seed = s /\ Store!Save(t, s).task = t
BY DEF Store!Save, Store!Call

LEMMA SeedInit == Store!Init => SeedInv
<1> SUFFICES ASSUME Store!Init PROVE SeedInv
  OBVIOUS
<1>1. DOMAIN calls = {1} /\ calls[1] = Store!Load("open") /\ calls \in Seq(Store!Call)
  BY LoadCall DEF Store!Init, Store!Tasks
<1>2. Ordered(calls) /\ Real(calls) /\ Waited(calls)
  BY <1>1, LoadCall DEF Ordered, Real, Waited, Store!Tasks
<1>3. Store!TypeOK
  <2>1. 0 \in 0..MaxFaults
    BY PartsAssumption DEF Store!SeedAssumption
  <2>2. desktop \in BOOLEAN /\ cleared \in BOOLEAN
    BY DEF Store!Init
  <2>3. {keychain, local, ident, told, owned} \subseteq PageSeeds \cup {None}
    BY DEF Store!Init
  <2> QED
    BY <1>1, <2>1, <2>2, <2>3 DEF Store!Init, Store!TypeOK
<1>4. Queued /\ Kept /\ Owner
  BY <1>2 DEF Store!Init, Queued, Kept, Owner
<1> QED
  BY <1>3, <1>4 DEF SeedInv

\* Connect and Restore key call the keychain.
LEMMA CallKeeps ==
  ASSUME SeedInv, NEW c \in Store!Call, c.page,
         c.op = "save" => c.task = "restore" /\ c.seed \in Backups,
         calls' = Append(calls, c),
         UNCHANGED <<desktop, keychain, local, ident, told, owned, cleared, faults>>
  PROVE  SeedInv'
<1>1. calls \in Seq(Store!Call) /\ (c.op = "save" => c.seed \in PageSeeds)
  BY PartsAssumption DEF SeedInv, Store!TypeOK, Store!SeedAssumption
<1>2. /\ calls' \in Seq(Store!Call)
      /\ Ordered(calls) => Ordered(calls')
      /\ Waited(calls) => Waited(calls')
      /\ Real(calls) => Real(calls')
      /\ Restores(calls) => Restores(calls')
  BY <1>1, AppendCall
<1>3. Store!TypeOK'
  BY <1>2 DEF SeedInv, Store!TypeOK
<1>4. Queued'
  BY <1>2 DEF SeedInv, Queued
<1>5. Kept' /\ Owner'
  BY <1>2 DEF SeedInv, Kept, Owner, Store!Answers, Store!Lookup
<1> QED
  BY <1>3, <1>4, <1>5 DEF SeedInv

LEMMA ServeLoadKeeps ==
  ASSUME SeedInv, NEW ok \in BOOLEAN, Store!ServeLoad(ok)
  PROVE  SeedInv'
<1> DEFINE c == Head(calls)
<1>1. /\ UNCHANGED <<desktop, keychain, local, told, owned, cleared>>
      /\ calls # <<>> /\ c.op = "load"
      /\ ~ok => desktop /\ faults < MaxFaults
      /\ faults' = IF ok THEN faults ELSE faults + 1
  BY DEF Store!ServeLoad, Store!Succeeds
<1>2. /\ calls \in Seq(Store!Call) /\ faults \in 0..MaxFaults /\ desktop \in BOOLEAN /\ cleared \in BOOLEAN
      /\ keychain \in PageSeeds \cup {None} /\ local \in PageSeeds \cup {None}
      /\ ident \in PageSeeds \cup {None} /\ told \in PageSeeds \cup {None} /\ owned \in PageSeeds \cup {None}
  BY DEF SeedInv, Store!TypeOK
<1>3. faults' \in 0..MaxFaults /\ (Store!Answers' => Store!Answers /\ ok)
  BY <1>1, <1>2, PartsAssumption DEF Store!Answers, Store!SeedAssumption
<1>4. /\ Tail(calls) \in Seq(Store!Call) /\ c \in Store!Call
      /\ Ordered(Tail(calls)) /\ Real(Tail(calls))
      /\ c.page => Waited(calls)
      /\ Waited(calls) => Waited(Tail(calls)) /\ c.page
      /\ Restores(calls) => Restores(Tail(calls))
  BY <1>1, <1>2, ServeCall DEF SeedInv, Queued
<1>5. CASE calls' = Tail(calls) /\ UNCHANGED ident
  <2>1. Store!TypeOK'
    BY <1>1, <1>2, <1>3, <1>4, <1>5 DEF Store!TypeOK
  <2>2. Queued'
    BY <1>1, <1>4, <1>5 DEF SeedInv, Queued
  <2>3. Kept' /\ Owner'
    BY <1>1, <1>3, <1>4, <1>5 DEF SeedInv, Kept, Owner, Store!Lookup
  <2> QED
    BY <2>1, <2>2, <2>3 DEF SeedInv
<1>6. CASE c.page /\ Store!Lookup(ok) # None /\ ident' = Store!Lookup(ok) /\ calls' = Tail(calls)
  <2>1. Store!TypeOK'
    BY <1>1, <1>2, <1>3, <1>4, <1>6 DEF Store!TypeOK, Store!Lookup
  <2>2. Queued'
    BY <1>1, <1>4, <1>6 DEF SeedInv, Queued
  <2>3. Kept' /\ Owner'
    BY <1>1, <1>3, <1>4, <1>6 DEF SeedInv, Kept, Owner, Store!Lookup
  <2> QED
    BY <2>1, <2>2, <2>3 DEF SeedInv
<1>7. ASSUME c.page, Store!Lookup(ok) = None, NEW s \in PageSeeds, UNCHANGED ident,
             calls' = Append(Tail(calls), Store!Save(c.task, s))
      PROVE  SeedInv'
  <2>1. c.task \in Store!Tasks
    BY <1>4 DEF Store!Call
  <2>2. /\ calls' \in Seq(Store!Call) /\ Ordered(calls') /\ Real(calls')
        /\ Waited(Tail(calls)) => Waited(calls')
    BY <1>4, <1>7, <2>1, SaveCall, AppendCall
  <2>3. Store!TypeOK'
    BY <1>1, <1>2, <1>3, <1>7, <2>2 DEF Store!TypeOK
  <2>4. Queued'
    BY <1>1, <1>4, <1>7, <2>2 DEF SeedInv, Queued
  <2>5. Kept'
    BY <1>1, <1>3, <1>7 DEF SeedInv, Kept
  <2>6. ok => owned = None \/ ~Store!Answers
    BY <1>2, <1>7, PartsAssumption DEF SeedInv, Owner, Store!SeedAssumption
  <2>7. Owner'
    BY <1>1, <1>3, <2>6 DEF Owner
  <2> QED
    BY <2>3, <2>4, <2>5, <2>7 DEF SeedInv
<1> QED
  BY <1>5, <1>6, <1>7 DEF Store!ServeLoad, Store!Loaded

LEMMA ServeSaveKeeps ==
  ASSUME SeedInv, NEW ok \in BOOLEAN, Store!ServeSave(ok)
  PROVE  SeedInv'
<1> DEFINE c == Head(calls)
<1>1. /\ UNCHANGED <<desktop, owned, cleared>>
      /\ calls # <<>> /\ c.op = "save" /\ calls' = Tail(calls)
      /\ ~ok => desktop /\ faults < MaxFaults
      /\ faults' = IF ok THEN faults ELSE faults + 1
      /\ keychain' = IF desktop /\ ok THEN c.seed ELSE keychain
      /\ local' = IF ~(desktop /\ ok) /\ c.page THEN c.seed ELSE local
      /\ ident' = IF c.page THEN c.seed ELSE ident
      /\ told' = IF c.page /\ c.task = "restore" THEN c.seed ELSE told
  BY DEF Store!ServeSave, Store!Succeeds, Store!Put
<1>2. /\ calls \in Seq(Store!Call) /\ faults \in 0..MaxFaults /\ desktop \in BOOLEAN /\ cleared \in BOOLEAN
      /\ keychain \in PageSeeds \cup {None} /\ local \in PageSeeds \cup {None}
      /\ ident \in PageSeeds \cup {None} /\ told \in PageSeeds \cup {None} /\ owned \in PageSeeds \cup {None}
  BY DEF SeedInv, Store!TypeOK
<1>3. faults' \in 0..MaxFaults /\ (Store!Answers' => Store!Answers /\ ok)
  BY <1>1, <1>2, PartsAssumption DEF Store!Answers, Store!SeedAssumption
<1>4. /\ Tail(calls) \in Seq(Store!Call) /\ c \in Store!Call
      /\ Ordered(Tail(calls)) /\ Real(Tail(calls)) /\ c.seed \in PageSeeds
      /\ c.page => Waited(calls)
      /\ Waited(calls) => Waited(Tail(calls)) /\ c.page
      /\ Restores(calls) => Restores(Tail(calls)) /\ c.task = "restore" /\ c.seed \in Backups
  BY <1>1, <1>2, ServeCall DEF SeedInv, Queued
<1>5. c.seed # None
  BY <1>4, PartsAssumption DEF Store!SeedAssumption
<1>6. ~c.page => desktop /\ ident = None /\ told = None
  BY <1>4 DEF SeedInv, Queued
<1> HIDE DEF c
<1>7. Store!TypeOK'
  BY <1>1, <1>2, <1>3, <1>4 DEF Store!TypeOK
<1>8. Queued'
  BY <1>1, <1>4, <1>6 DEF SeedInv, Queued
<1>9. Kept'
  BY <1>1, <1>2, <1>3, <1>5, <1>6 DEF SeedInv, Kept
<1>10. Owner'
  BY <1>1, <1>2, <1>3, <1>4, <1>5, <1>6 DEF SeedInv, Kept, Owner, Store!Lookup
<1> QED
  BY <1>7, <1>8, <1>9, <1>10 DEF SeedInv

LEMMA ReloadKeeps ==
  ASSUME SeedInv, Store!Reload
  PROVE  SeedInv'
<1>1. /\ UNCHANGED <<desktop, keychain, local, cleared, faults>>
      /\ desktop \/ calls = <<>>
      /\ calls' = Append(Orphans(calls), Store!Load("open"))
      /\ ident' = None /\ told' = None
      /\ owned' = IF \E k \in DOMAIN calls : calls[k].op = "save" THEN None ELSE Store!Lookup(TRUE)
  BY DEF Store!Reload, Orphans
<1>2. /\ calls \in Seq(Store!Call) /\ faults \in 0..MaxFaults /\ desktop \in BOOLEAN /\ cleared \in BOOLEAN
      /\ keychain \in PageSeeds \cup {None} /\ local \in PageSeeds \cup {None}
      /\ Real(calls)
  BY DEF SeedInv, Store!TypeOK, Queued
<1>3. Store!Load("open") \in Store!Call /\ Store!Load("open").page /\ Store!Load("open").op = "load"
  BY LoadCall DEF Store!Tasks
<1>4. /\ Orphans(calls) \in Seq(Store!Call) /\ Ordered(Orphans(calls)) /\ Real(Orphans(calls))
      /\ (\A k \in DOMAIN calls : calls[k].op # "save") => Restores(Orphans(calls))
  BY <1>2, OrphanCalls
<1>5. /\ calls' \in Seq(Store!Call) /\ Ordered(calls') /\ Real(calls')
      /\ (\A k \in DOMAIN calls : calls[k].op # "save") => Restores(calls')
  BY <1>1, <1>3, <1>4, AppendCall
<1>6. ~Waited(calls') => desktop
  <2>1. CASE calls = <<>>
    <3>1. calls' = <<Store!Load("open")>>
      BY <1>1, <2>1 DEF Orphans
    <3> QED
      BY <1>3, <3>1 DEF Waited
  <2> QED
    BY <1>1, <2>1
<1>7. Store!TypeOK'
  BY <1>1, <1>2, <1>5 DEF Store!TypeOK, Store!Lookup
<1>8. Queued' /\ Kept'
  BY <1>1, <1>5, <1>6 DEF SeedInv, Queued, Kept, Store!Answers
<1>9. Owner'
  BY <1>1, <1>5 DEF Owner, Store!Lookup
<1> QED
  BY <1>7, <1>8, <1>9 DEF SeedInv

LEMMA SeedStep == SeedInv /\ [Store!Next]_(Store!vars) => SeedInv'
<1> SUFFICES ASSUME SeedInv, [Store!Next]_(Store!vars) PROVE SeedInv'
  OBVIOUS
<1>1. CASE UNCHANGED Store!vars
  BY <1>1 DEF Store!vars, SeedInv, Store!TypeOK, Queued, Kept, Owner, Store!Answers, Store!Lookup
<1>2. CASE Store!Connect
  BY <1>2, CallKeeps, LoadCall DEF Store!Connect, Store!Tasks
<1>3. ASSUME NEW s \in Backups, Store!Restore(s) PROVE SeedInv'
  <2>1. s \in PageSeeds
    BY PartsAssumption DEF Store!SeedAssumption
  <2> QED
    BY <1>3, <2>1, CallKeeps, SaveCall DEF Store!Restore, Store!Tasks
<1>4. CASE Store!ClearData
  BY <1>4 DEF Store!ClearData, SeedInv, Store!TypeOK, Queued, Kept, Owner, Store!Answers, Store!Lookup
<1> QED
  BY <1>1, <1>2, <1>3, <1>4, ReloadKeeps, ServeLoadKeeps, ServeSaveKeeps DEF Store!Next

LEMMA SeedMeans == SeedInv => SeedKept /\ OwnOrRestored
<1> SUFFICES ASSUME SeedInv PROVE SeedKept /\ OwnOrRestored
  OBVIOUS
<1>1. Store!NextStartSame /\ Store!SavedSomewhere
  BY DEF SeedInv, Kept, Store!NextStartSame, Store!SavedSomewhere, Store!Lookup
<1>2. Store!OnlyFreshMints /\ Store!RestoreStays
  BY DEF SeedInv, Owner, Store!OnlyFreshMints, Store!FreshMints, Store!RestoreStays, Store!Restored
<1> QED
  BY <1>1, <1>2 DEF SeedInv, SeedKept, OwnOrRestored

\* Only the part of the behaviour that is the store's changes it.
LEMMA StoreMoves == [MCNext]_<<part, vars, store, rings, folder>> => [Store!Next]_(Store!vars)
BY DEF MCNext, store, Store!vars

\* The strengthening, in every state of every behaviour.
THEOREM SeedInvariant == MCSpec => []SeedInv
<1>1. MCInit => SeedInv
  BY SeedInit DEF MCInit
<1>2. SeedInv /\ [MCNext]_<<part, vars, store, rings, folder>> => SeedInv'
  BY StoreMoves, SeedStep
<1> QED
  BY <1>1, <1>2, PTL DEF MCSpec

\* The identity a page ends up with is the one that its next start finds, and
\* it is stored somewhere however often the keychain fails.
THEOREM IdentityKept == MCSpec => []SeedKept
BY SeedInvariant, SeedMeans, PTL

\* Loads, saves, restores and reloads at once never let a page that was opened
\* with an identity mint over it, nor undo what it said it has restored.
THEOREM NothingMintedOver == MCSpec => []OwnOrRestored
BY SeedInvariant, SeedMeans, PTL

-----------------------------------------------------------------------------
(* Numbers and sequences: induction from the least of some numbers. *)


\* Of any numbers there is a least one: initial segments are finite, and finite
\* sets are well-founded by inclusion.
LEMMA LeastNumber ==
  ASSUME NEW T, T \subseteq Nat, T # {}
  PROVE  \E n \in T : \A m \in T : n <= m
<1> DEFINE R == StrictSubsetOrdering(Nat)
           F == {1 .. n : n \in T}
<1>1. F \subseteq FiniteSubsetsOf(Nat)
  <2> SUFFICES ASSUME NEW n \in T PROVE 1 .. n \in FiniteSubsetsOf(Nat)
    OBVIOUS
  <2>1. IsFiniteSet(1 .. n)
    BY FS_Interval
  <2> QED
    BY <2>1 DEF FiniteSubsetsOf
<1>2. IsWellFoundedOn(R, FiniteSubsetsOf(Nat))
  BY FS_StrictSubsetOrderingWellFounded
<1>3. F # {}
  OBVIOUS
<1>4. PICK I \in F : \A J \in F : ~(<<J, I>> \in R) 
  <2> HIDE DEF R, F
  <2> QED
    BY <1>1, <1>2, <1>3, WFMin
<1>5. PICK n \in T : I = 1 .. n
  OBVIOUS
<1>6. ASSUME NEW m \in T, m < n PROVE FALSE
  <2>1. <<1 .. m, 1 .. n>> \notin R
    BY <1>4, <1>5
  <2>2. n \in 1 .. n /\ n \notin 1 .. m
    BY <1>6
  <2>3. 1 .. m \subseteq 1 .. n
    BY <1>6
  <2>4. 1 .. m \in SUBSET Nat /\ 1 .. n \in SUBSET Nat
    OBVIOUS
  <2>5. 1 .. m # 1 .. n
    BY <2>2
  <2> QED
    BY <2>1, <2>3, <2>4, <2>5 DEF StrictSubsetOrdering
<1> QED
  BY <1>6

\* Induction, over a set in place of a predicate.
LEMMA Induction ==
  ASSUME NEW S, 0 \in S, \A n \in Nat : n \in S => n + 1 \in S
  PROVE  Nat \subseteq S
<1> SUFFICES ASSUME Nat \ S # {} PROVE FALSE
  OBVIOUS
<1>1. PICK n \in Nat \ S : \A m \in Nat \ S : n <= m
  BY LeastNumber
<1>2. n # 0
  OBVIOUS
<1>3. n - 1 \in Nat /\ ~(n <= n - 1)
  BY <1>2
<1>4. n - 1 \in S
  BY <1>1, <1>3
<1>5. (n - 1) + 1 = n
  OBVIOUS
<1> QED
  BY <1>3, <1>4, <1>5

\* The names of a path, each in a sequence of its own, make the path.
LEMMA FlattenSingles ==
  ASSUME NEW T, NEW s \in Seq(T)
  PROVE  Folder!FlattenSeq([k \in DOMAIN s |-> <<s[k]>>]) = s
<1> DEFINE ss == [k \in DOMAIN s |-> <<s[k]>>]
<1>0. /\ DOMAIN s = 1 .. Len(s) /\ Len(s) \in Nat
      /\ \A k \in 1 .. Len(s) : s[k] \in T
  OBVIOUS
<1>1. ss \in Seq(Seq(T)) /\ Len(ss) = Len(s)
  BY <1>0
<1>2. CASE s = <<>>
  <2>1. Len(ss) = 0 /\ ss = <<>>
    BY <1>0, <1>1, <1>2
  <2> QED
    BY <2>1, <1>2 DEF Folder!FlattenSeq
<1>3. CASE s # <<>>
  <2> DEFINE Step(g, i) == IF i = 1 THEN ss[i] ELSE g[i-1] \o ss[i]
             IsFlat(g) == g = [i \in 1 .. Len(ss) |-> Step(g, i)]
             flat == CHOOSE g : IsFlat(g)
             pre == [i \in 1 .. Len(ss) |-> SubSeq(s, 1, i)]
  <2>0. Len(s) > 0
    BY <1>0, <1>3
  <2>1. ASSUME NEW i \in 1 .. Len(ss), i # 1
        PROVE  SubSeq(s, 1, i - 1) \o ss[i] = SubSeq(s, 1, i)
    BY <1>0, <1>1, <2>1
  <2>2. SubSeq(s, 1, 1) = ss[1] /\ SubSeq(s, 1, Len(s)) = s
    BY <1>0, <1>1, <2>0
  <2>3. ASSUME NEW i \in 1 .. Len(ss) PROVE pre[i] = Step(pre, i)
    <3>1. CASE i = 1
      BY <3>1, <2>2
    <3>2. CASE i # 1
      <4>1. i - 1 \in 1 .. Len(ss)
        BY <3>2, <1>1
      <4> QED
        BY <4>1, <3>2, <2>1
    <3> QED
      BY <3>1, <3>2
  <2>4. IsFlat(pre)
    <3> HIDE DEF Step
    <3> QED
      BY <2>3
  <2>5. IsFlat(flat)
    <3> HIDE DEF IsFlat, pre
    <3> QED
      BY <2>4
  <2>6. \A i \in 1 .. Len(ss) : flat[i] = Step(flat, i)
    <3> HIDE DEF Step, flat
    <3> QED
      BY <2>5
  <2> DEFINE Good == {n \in Nat : n \in 1 .. Len(ss) => flat[n] = SubSeq(s, 1, n)}
  <2>7. 0 \in Good
    OBVIOUS
  <2>8. ASSUME NEW n \in Nat, n \in Good PROVE n + 1 \in Good
    <3> HIDE DEF flat
    <3> SUFFICES ASSUME n + 1 \in 1 .. Len(ss) PROVE flat[n + 1] = SubSeq(s, 1, n + 1)
      OBVIOUS
    <3>1. flat[n + 1] = Step(flat, n + 1)
      BY <2>6
    <3>2. CASE n = 0
      BY <3>1, <3>2, <2>2
    <3>3. CASE n # 0
      <4>1. n \in 1 .. Len(ss) /\ (n + 1) - 1 = n /\ n + 1 # 1
        BY <3>3, <1>1
      <4>2. flat[n] = SubSeq(s, 1, n)
        BY <4>1, <2>8
      <4>3. SubSeq(s, 1, n) \o ss[n + 1] = SubSeq(s, 1, n + 1)
        BY <4>1, <2>1
      <4> QED
        BY <4>1, <4>2, <4>3, <3>1
    <3> QED
      BY <3>2, <3>3
  <2>9. flat[Len(ss)] = s
    <3>1. Nat \subseteq Good
      <4> HIDE DEF Good
      <4> QED
        BY <2>7, <2>8, Induction
    <3> HIDE DEF flat
    <3> QED
      BY <3>1, <2>2, <2>0, <1>0, <1>1
  <2>10. Len(ss) # 0
    BY <2>0, <1>0, <1>1
  <2>11. Folder!FlattenSeq(ss) = flat[Len(ss)]
    <3> HIDE DEF ss
    <3> QED
      BY <2>10 DEF Folder!FlattenSeq
  <2> QED
    BY <2>9, <2>11
<1> QED
  BY <1>2, <1>3

\* A set of indices that has any has a last one and a first one.
LEMMA Bounds ==
  ASSUME NEW n \in Nat, NEW T \in SUBSET (0 .. n), T # {}
  PROVE  /\ Folder!Max(T) \in T /\ \A k \in T : k <= Folder!Max(T)
         /\ Folder!Min(T) \in T /\ \A k \in T : Folder!Min(T) <= k
<1>0. T \subseteq Nat /\ \A k \in T : n - k \in Nat
  OBVIOUS
<1>1. PICK a \in T : \A k \in T : a <= k
  BY <1>0, LeastNumber
<1> DEFINE back == {n - k : k \in T}
<1>2. back \subseteq Nat /\ back # {}
  BY <1>0
<1>3. PICK b \in back : \A k \in back : b <= k
  <2> HIDE DEF back
  <2> QED
    BY <1>2, LeastNumber
<1>4. PICK c \in T : b = n - c
  OBVIOUS
<1>5. ASSUME NEW k \in T PROVE c >= k
  <2>1. n - k \in back
    OBVIOUS
  <2>2. n - c <= n - k
    BY <2>1, <1>3, <1>4
  <2> QED
    BY <2>2, <1>0
<1>6. (\E x \in T : \A y \in T : x >= y) /\ (\E x \in T : \A y \in T : x =< y)
  BY <1>1, <1>5
<1>7. Folder!Max(T) \in T /\ \A y \in T : Folder!Max(T) >= y
  BY <1>6 DEF Folder!Max
<1>8. Folder!Min(T) \in T /\ \A y \in T : Folder!Min(T) =< y
  BY <1>6 DEF Folder!Min
<1> QED
  BY <1>7, <1>8

-----------------------------------------------------------------------------
(* Paths of the folder. *)

LEMMA PathShape ==
  ASSUME NEW p \in Folder!Paths
  PROVE  /\ p \in Seq(Names) /\ Len(p) \in Nat /\ DOMAIN p = 1 .. Len(p)
         /\ \A k \in 1 .. Len(p) : p[k] \in Names /\ p[k] # "" /\ p[k] # Outside
         /\ SubSeq(p, 1, Len(p)) = p
         /\ \A k \in 0 .. Len(p) - 1 :
              SubSeq(p, 1, k) \in Folder!Paths /\ Places[SubSeq(p, 1, k)] = "dir"
<1>1. p \in Seq(Names \ {""}) /\ Outside \notin Names
  BY PartsAssumption DEF Folder!ShareAssumption
<1>2. \A k \in 0 .. Len(p) - 1 :
        SubSeq(p, 1, k) \in Folder!Paths /\ Places[SubSeq(p, 1, k)] = "dir"
  BY PartsAssumption DEF Folder!ShareAssumption
<1>3. Len(p) \in Nat /\ DOMAIN p = 1 .. Len(p) /\ SubSeq(p, 1, Len(p)) = p
  BY <1>1, LenProperties, SubSeqFull
<1>4. \A k \in 1 .. Len(p) : p[k] \in Names \ {""}
  BY <1>1, ElementOfSeq
<1>5. p \in Seq(Names)
  <2>1. Names \ {""} \subseteq Names
    OBVIOUS
  <2> QED
    BY <1>1, <2>1, SeqMonotonic
<1>6. \A k \in 1 .. Len(p) : p[k] \in Names /\ p[k] # "" /\ p[k] # Outside
  BY <1>1, <1>4
<1> QED
  BY <1>2, <1>3, <1>5, <1>6

LEMMA RowPath ==
  ASSUME NEW p \in Seq(Names), NEW n \in Names, Append(p, n) \in Folder!Paths
  PROVE  p \in Folder!Paths /\ Places[p] = "dir"
<1>1. Len(p) \in 0 .. Len(Append(p, n)) - 1 /\ SubSeq(Append(p, n), 1, Len(p)) = p
  OBVIOUS
<1> QED
  BY <1>1, PathShape

LEMMA ShorterPrefix ==
  ASSUME NEW p \in Seq(Names), NEW m \in Nat, m + 1 <= Len(p)
  PROVE  /\ SubSeq(p, 1, m + 1) # <<>>
         /\ Folder!Front(SubSeq(p, 1, m + 1)) = SubSeq(p, 1, m)
<1>0. Len(p) \in Nat
  BY LenProperties
<1>a. /\ SubSeq(p, 1, m + 1) \in Seq(Names) /\ Len(SubSeq(p, 1, m + 1)) = m + 1
      /\ \A i \in 1 .. m + 1 : SubSeq(p, 1, m + 1)[i] = p[i]
  BY <1>0
<1>1. PICK q \in Seq(Names) :
        q = SubSeq(p, 1, m + 1) /\ Len(q) = m + 1 /\ \A i \in 1 .. m + 1 : q[i] = p[i]
  BY <1>a
<1>2. SubSeq(q, 1, m) \in Seq(Names) /\ Len(SubSeq(q, 1, m)) = m
  BY <1>1
<1>3. SubSeq(p, 1, m) \in Seq(Names) /\ Len(SubSeq(p, 1, m)) = m
  BY <1>0
<1>4. \A i \in 1 .. m : SubSeq(q, 1, m)[i] = SubSeq(p, 1, m)[i]
  BY <1>0, <1>1
<1>5. SubSeq(q, 1, m) = SubSeq(p, 1, m)
  BY <1>2, <1>3, <1>4, SeqEqual
<1>6. Len(q) - 1 = m /\ q # <<>>
  BY <1>1
<1> QED
  BY <1>1, <1>5, <1>6 DEF Folder!Front

LEMMA TreeShape ==
  ASSUME tree \in Folder!Trees
  PROVE  /\ DOMAIN tree \subseteq Folder!Paths /\ <<>> \in DOMAIN tree
         /\ \A p \in DOMAIN tree : tree[p] = Places[p]
         /\ \A p \in DOMAIN tree : \A k \in 0 .. Len(p) : SubSeq(p, 1, k) \in DOMAIN tree
<1>1. PICK ps \in SUBSET Folder!Paths :
        /\ <<>> \in ps /\ \A p \in ps \ {<<>>} : Folder!Front(p) \in ps
        /\ tree = [p \in ps |-> Places[p]]
  BY DEF Folder!Trees
<1>2. DOMAIN tree = ps
  BY <1>1
<1>3. ASSUME NEW p \in ps PROVE \A k \in 0 .. Len(p) : SubSeq(p, 1, k) \in ps
  <2> DEFINE Good == {n \in Nat : \A k \in Nat : k + n = Len(p) => SubSeq(p, 1, k) \in ps}
  <2>0. p \in Seq(Names) /\ Len(p) \in Nat /\ SubSeq(p, 1, Len(p)) = p
    BY <1>1, PathShape
  <2>1. 0 \in Good
    <3>1. \A k \in Nat : k + 0 = Len(p) => k = Len(p)
      OBVIOUS
    <3> QED
      BY <2>0, <3>1
  <2>2. ASSUME NEW n \in Nat, n \in Good PROVE n + 1 \in Good
    <3> SUFFICES ASSUME NEW k \in Nat, k + (n + 1) = Len(p) PROVE SubSeq(p, 1, k) \in ps
      OBVIOUS
    <3>1. k + 1 \in Nat /\ (k + 1) + n = Len(p) /\ k + 1 <= Len(p)
      OBVIOUS
    <3>2. SubSeq(p, 1, k + 1) \in ps
      BY <3>1, <2>2
    <3>3. SubSeq(p, 1, k + 1) # <<>> /\ Folder!Front(SubSeq(p, 1, k + 1)) = SubSeq(p, 1, k)
      BY <2>0, <3>1, ShorterPrefix
    <3>4. Folder!Front(SubSeq(p, 1, k + 1)) \in ps
      BY <1>1, <3>2, <3>3
    <3> HIDE DEF Good
    <3> QED
      BY <3>3, <3>4, Zenon
  <2>3. Nat \subseteq Good
    <3> HIDE DEF Good
    <3> QED
      BY <2>1, <2>2, Induction
  <2>4. ASSUME NEW k \in 0 .. Len(p) PROVE SubSeq(p, 1, k) \in ps
    <3>1. k \in Nat /\ Len(p) - k \in Nat /\ k + (Len(p) - k) = Len(p)
      BY <2>0
    <3>2. Len(p) - k \in Good
      BY <3>1, <2>3
    <3> QED
      BY <3>1, <3>2
  <2> QED
    BY <2>4
<1> QED
  BY <1>1, <1>2, <1>3

\* A set of paths with everything on the way to them makes a tree.
LEMMA TreeMade ==
  ASSUME NEW ps \in SUBSET Folder!Paths, <<>> \in ps,
         \A p \in ps : \A k \in 0 .. Len(p) : SubSeq(p, 1, k) \in ps
  PROVE  [q \in ps |-> Places[q]] \in Folder!Trees
<1>1. ASSUME NEW p \in ps \ {<<>>} PROVE Folder!Front(p) \in ps
  <2>1. p \in Seq(Names) /\ Len(p) \in Nat /\ p # <<>>
    BY PathShape
  <2>2. Len(p) - 1 \in 0 .. Len(p)
    BY <2>1
  <2> QED
    BY <2>2 DEF Folder!Front
<1> QED
  BY <1>1 DEF Folder!Trees

-----------------------------------------------------------------------------
(* Where a path leads. *)

\* What is on the way is a folder, so a path leads to itself if its end does.
LEMMA RealOfPlace ==
  ASSUME tree \in Folder!Trees, NEW p \in Folder!Paths, ~Folder!Is(p, "link")
  PROVE  Folder!Real(p) = p /\ Folder!Within(p)
<1>1. ASSUME NEW k \in DOMAIN p, Folder!Is(SubSeq(p, 1, k), "link") PROVE FALSE
  <2>1. k \in 1 .. Len(p) /\ Len(p) \in Nat /\ SubSeq(p, 1, Len(p)) = p
    BY PathShape
  <2>2. CASE k = Len(p)
    BY <2>1, <2>2, <1>1
  <2>3. CASE k # Len(p)
    <3>1. k \in 0 .. Len(p) - 1
      BY <2>1, <2>3
    <3>2. Places[SubSeq(p, 1, k)] = "dir"
      BY <3>1, PathShape
    <3> QED
      BY <3>2, <1>1, TreeShape DEF Folder!Is
  <2> QED
    BY <2>2, <2>3
<1>2. Folder!Real(p) = p
  BY <1>1 DEF Folder!Real
<1>3. p = <<>> \/ Head(p) # Outside
  <2>1. p \in Seq(Names) /\ \A k \in 1 .. Len(p) : p[k] # Outside
    BY PathShape
  <2> QED
    BY <2>1
<1> QED
  BY <1>2, <1>3 DEF Folder!Within

LEMMA PartsOfPlace ==
  ASSUME Folder!PlainNames, NEW p \in Folder!Paths
  PROVE  Folder!Parts(p) = p
<1>0. /\ p \in Seq(Names) /\ Len(p) \in Nat /\ DOMAIN p = 1 .. Len(p) /\ SubSeq(p, 1, Len(p)) = p
      /\ \A k \in DOMAIN p :
           p[k] # "" /\ Split[p[k]] = <<p[k]>> /\ LTrim[p[k]] = p[k] /\ RTrim[p[k]] = p[k]
  BY PathShape DEF Folder!PlainNames
<1> DEFINE flat == Folder!FlattenSeq([k \in DOMAIN p |-> Split[p[k]]])
           begun == [k \in DOMAIN flat |-> IF k = 1 THEN LTrim[flat[k]] ELSE flat[k]]
           bare == [k \in DOMAIN begun |-> IF k = Len(begun) THEN RTrim[begun[k]] ELSE begun[k]]
           named == {k \in DOMAIN bare : bare[k] # ""}
<1>1. Folder!Parts(p) =
        IF Len(bare) > 1 /\ bare[1] = "" THEN bare ELSE SubSeq(bare, 1, Folder!Max({0} \cup named))
  BY DEF Folder!Parts
<1>2. flat = p
  <2>1. [k \in DOMAIN p |-> Split[p[k]]] = [k \in DOMAIN p |-> <<p[k]>>]
    BY <1>0
  <2> QED
    BY <1>0, <2>1, FlattenSingles
<1> HIDE DEF flat
<1>3. bare = p
  <2>1. p \in [DOMAIN p -> Names]
    BY LenProperties, PathShape
  <2>2. p = [k \in DOMAIN p |-> p[k]]
    BY <2>1
  <2>3. begun = [k \in DOMAIN p |-> p[k]]
    BY <1>0, <1>2
  <2> HIDE DEF begun
  <2>4. bare = [k \in DOMAIN p |-> p[k]]
    BY <1>0, <2>2, <2>3
  <2> QED
    BY <2>2, <2>4
<1> HIDE DEF begun, bare
<1>4. ~(Len(bare) > 1 /\ bare[1] = "")
  <2>1. DOMAIN p = 1 .. Len(p) /\ Len(p) \in Nat
    BY <1>0
  <2>2. Len(p) > 1 => 1 \in DOMAIN p
    BY <2>1
  <2> QED
    BY <1>0, <1>3, <2>2
<1>5. Folder!Max({0} \cup named) = Len(p)
  <2>1. named = 1 .. Len(p)
    BY <1>0, <1>3
  <2> HIDE DEF named
  <2>0. PICK n \in Nat : n = Len(p)
    BY <1>0
  <2>a. {0} \cup (1 .. n) = 0 .. n
    OBVIOUS
  <2>2. n = Len(p) /\ {0} \cup named = 0 .. n
    BY <2>0, <2>1, <2>a
  <2>3. n \in 0 .. n /\ 0 .. n \in SUBSET (0 .. n)
    OBVIOUS
  <2>4. Folder!Max(0 .. n) \in 0 .. n /\ n <= Folder!Max(0 .. n)
    BY <2>3, Bounds
  <2>5. Folder!Max(0 .. n) = n
    BY <2>4
  <2> QED
    BY <2>2, <2>5
<1> HIDE DEF named
<1> QED
  BY <1>0, <1>1, <1>3, <1>4, <1>5

LEMMA InnerOfPlace ==
  ASSUME NEW p \in Folder!Paths
  PROVE  Folder!Inner(p) = p
<1>0. /\ p \in Seq(Names) /\ Len(p) \in Nat /\ DOMAIN p = 1 .. Len(p) /\ SubSeq(p, 1, Len(p)) = p
      /\ \A k \in 1 .. Len(p) : p[k] # ""
  BY PathShape
<1>1. {k \in DOMAIN p : p[k] # ""} = 1 .. Len(p)
  BY <1>0
<1>2. CASE p = <<>>
  BY <1>1, <1>2, <1>0 DEF Folder!Inner
<1>3. CASE p # <<>>
  <2>0. PICK n \in Nat : n = Len(p)
    BY <1>0
  <2>a. n # 0
    BY <1>0, <1>3, <2>0, EmptySeq
  <2>1. 1 .. n # {} /\ 1 .. n \in SUBSET (0 .. n) /\ 1 \in 1 .. n /\ n \in 1 .. n
    BY <2>a
  <2>2. Folder!Max(1 .. n) = n /\ Folder!Min(1 .. n) = 1
    <3>1. /\ Folder!Max(1 .. n) \in 1 .. n /\ n <= Folder!Max(1 .. n)
          /\ Folder!Min(1 .. n) \in 1 .. n /\ Folder!Min(1 .. n) <= 1
      BY <2>1, Bounds
    <3> QED
      BY <3>1
  <2> QED
    BY <1>0, <1>1, <2>0, <2>1, <2>2 DEF Folder!Inner
<1> QED
  BY <1>2, <1>3

-----------------------------------------------------------------------------
Shown(p) == \A k \in DOMAIN p : p[k] \notin Hidden

LEMMA ResolveOfPlace ==
  ASSUME Folder!PlainNames, tree \in Folder!Trees, NEW p \in Folder!Paths, ~Folder!Is(p, "link"), Shown(p)
  PROVE  Folder!Resolve(p) = {p}
<1>1. Folder!Parts(p) = p
  BY PartsOfPlace
<1>2. ~\E k \in DOMAIN p : p[k] \in Hidden \cup {""}
  BY PathShape DEF Shown
<1>3. Folder!Real(p) = p /\ Folder!Within(p)
  BY RealOfPlace
<1> QED
  BY <1>1, <1>2, <1>3 DEF Folder!Resolve

\* What listing gives of the folder p itself.
Rows(p) ==
  {[name |-> n, kind |-> tree[Append(p, n)]] :
    n \in {m \in Folder!Children(p) \ Hidden : ~Folder!Is(Append(p, m), "link")}}

LEMMA ListingOfPlace ==
  ASSUME Folder!PlainNames, tree \in Folder!Trees, NEW p \in Folder!Paths, ~Folder!Is(p, "link"), Shown(p)
  PROVE  Folder!Listing(p) = IF Folder!Is(p, "dir") THEN Rows(p) ELSE {}
<1>1. Folder!Resolve(p) = {p}
  BY ResolveOfPlace
<1>2. CASE Folder!Is(p, "dir")
  <2>1. {q \in Folder!Resolve(p) : Folder!Is(q, "dir")} = {p}
    BY <1>1, <1>2
  <2> QED
    BY <2>1, <1>2 DEF Folder!Listing, Rows
<1>3. CASE ~Folder!Is(p, "dir")
  <2>1. {q \in Folder!Resolve(p) : Folder!Is(q, "dir")} = {}
    BY <1>1, <1>3
  <2> QED
    BY <2>1, <1>3 DEF Folder!Listing
<1> QED
  BY <1>2, <1>3

LEMMA RowsPlaced ==
  ASSUME tree \in Folder!Trees, NEW p, NEW e \in Rows(p)
  PROVE  /\ e \in Folder!Entry /\ e.name \notin Hidden
         /\ Append(p, e.name) \in DOMAIN tree /\ tree[Append(p, e.name)] = e.kind
<1>1. PICK n \in Folder!Children(p) \ Hidden :
        ~Folder!Is(Append(p, n), "link") /\ e = [name |-> n, kind |-> tree[Append(p, n)]]
  BY DEF Rows
<1>2. n \in Names /\ Append(p, n) \in DOMAIN tree
  BY DEF Folder!Children
<1>3. tree[Append(p, n)] \in {"dir", "file", "link"}
  BY <1>2, TreeShape, PartsAssumption DEF Folder!ShareAssumption
<1>4. e.kind \in {"dir", "file"}
  BY <1>1, <1>2, <1>3 DEF Folder!Is
<1> QED
  BY <1>1, <1>2, <1>4 DEF Folder!Entry

LEMMA ListingRows ==
  ASSUME NEW path, NEW e \in Folder!Listing(path)
  PROVE  \E p \in Folder!Resolve(path) : Folder!Is(p, "dir") /\ e \in Rows(p)
BY DEF Folder!Listing, Rows

\* The next name of a file's path after the folder p is a row of p.
LEMMA KeyRow ==
  ASSUME tree \in Folder!Trees, NEW p \in Folder!Paths, NEW q \in Folder!Keys,
         Len(q) > Len(p), Folder!IsPrefix(p, q)
  PROVE  /\ q \in Folder!Paths /\ q[Len(p) + 1] \in Names
         /\ Append(p, q[Len(p) + 1]) = SubSeq(q, 1, Len(p) + 1)
         /\ Append(p, q[Len(p) + 1]) \in DOMAIN tree
         /\ Len(q) = Len(p) + 1 => Append(p, q[Len(p) + 1]) = q
         /\ tree[Append(p, q[Len(p) + 1])] = IF Len(q) = Len(p) + 1 THEN "file" ELSE "dir"
<1>0. q \in DOMAIN tree /\ tree[q] = "file" /\ q \in Folder!Paths
  BY TreeShape DEF Folder!Keys
<1>1. /\ p \in Seq(Names) /\ Len(p) \in Nat /\ SubSeq(p, 1, Len(p)) = p
      /\ q \in Seq(Names) /\ Len(q) \in Nat /\ SubSeq(q, 1, Len(q)) = q
  BY <1>0, PathShape
<1>a. PICK m \in Nat : m = Len(p)
  BY <1>1
<1>b. PICK n \in Nat : n = Len(q)
  BY <1>1
<1>c. n > m /\ m + 1 \in 1 .. n /\ m + 1 \in 0 .. n
  BY <1>a, <1>b
<1>2. m = Len(p) /\ m + 1 \in 1 .. Len(q) /\ m + 1 \in 0 .. Len(q)
  BY <1>a, <1>b, <1>c
<1>3. q[m + 1] \in Names
  BY <1>1, <1>2, ElementOfSeq
<1>4. p = SubSeq(q, 1, m)
  BY <1>1, <1>2 DEF Folder!IsPrefix
<1>5. Append(p, q[m + 1]) = SubSeq(q, 1, m + 1)
  <2>1. \A i \in 1 .. m : p[i] = q[i]
    BY <1>1, <1>2, <1>4
  <2>2. Append(p, q[m + 1]) \in Seq(Names) /\ Len(Append(p, q[m + 1])) = m + 1
    BY <1>1, <1>2, <1>3
  <2>3. SubSeq(q, 1, m + 1) \in Seq(Names) /\ Len(SubSeq(q, 1, m + 1)) = m + 1
    BY <1>1, <1>2
  <2>4. \A i \in 1 .. m + 1 : Append(p, q[m + 1])[i] = SubSeq(q, 1, m + 1)[i]
    BY <1>1, <1>2, <1>3, <2>1
  <2> QED
    BY <2>2, <2>3, <2>4, SeqEqual
<1>6. SubSeq(q, 1, m + 1) \in DOMAIN tree
  BY <1>0, <1>2, TreeShape
<1>7. Len(q) = m + 1 => SubSeq(q, 1, m + 1) = q
  BY <1>1
<1>8. Len(q) # m + 1 => tree[SubSeq(q, 1, m + 1)] = "dir"
  <2> SUFFICES ASSUME Len(q) # m + 1 PROVE tree[SubSeq(q, 1, m + 1)] = "dir"
    OBVIOUS
  <2>0. m + 1 \in 0 .. n - 1
    BY <1>b, <1>c
  <2>1. m + 1 \in 0 .. Len(q) - 1
    BY <2>0, <1>b
  <2> QED
    BY <2>1, <1>0, <1>6, PathShape, TreeShape
<1> QED
  BY <1>0, <1>2, <1>3, <1>5, <1>6, <1>7, <1>8

\* What _listShare gives of the folder p itself.
PageRows(p) ==
  {[name |-> q[Len(p) + 1], kind |-> IF Len(q) = Len(p) + 1 THEN "file" ELSE "dir"] :
    q \in {r \in Folder!Keys : Len(r) > Len(p) /\ Folder!IsPrefix(p, r)}}

LEMMA PageListingOfPlace ==
  ASSUME NEW p \in Folder!Paths
  PROVE  Folder!PageListing(p) = PageRows(p)
BY InnerOfPlace DEF Folder!PageListing, PageRows

LEMMA PageRowsPlaced ==
  ASSUME tree \in Folder!Trees, NEW p \in Folder!Paths, NEW e \in PageRows(p)
  PROVE  /\ e.name \in Names
         /\ Append(p, e.name) \in DOMAIN tree /\ tree[Append(p, e.name)] = e.kind
<1>1. PICK q \in Folder!Keys :
        /\ Len(q) > Len(p) /\ Folder!IsPrefix(p, q)
        /\ e = [name |-> q[Len(p) + 1], kind |-> IF Len(q) = Len(p) + 1 THEN "file" ELSE "dir"]
  BY DEF PageRows
<1> QED
  BY <1>1, KeyRow

LEMMA PageListingTyped ==
  ASSUME tree \in Folder!Trees, NEW path \in Seq(Names)
  PROVE  Folder!PageListing(path) \subseteq Folder!Entry
<1> DEFINE base == Folder!Inner(path)
           named == {k \in DOMAIN path : path[k] # ""}
<1>1. Len(base) \in Nat
  <2>0. Len(path) \in Nat /\ DOMAIN path = 1 .. Len(path) /\ path \in Seq(Names)
    BY LenProperties
  <2>1. CASE named = {}
    <3>1. base = <<>>
      BY <2>1 DEF Folder!Inner
    <3> QED
      BY <3>1
  <2>2. CASE named # {}
    <3>0. 1 .. Len(path) \subseteq 0 .. Len(path)
      BY <2>0
    <3>1. named \in SUBSET (0 .. Len(path)) /\ named \subseteq 1 .. Len(path)
      BY <2>0, <3>0
    <3>2. Folder!Max(named) \in 1 .. Len(path) /\ Folder!Min(named) \in 1 .. Len(path)
      <4> HIDE DEF named
      <4> QED
        BY <2>0, <2>2, <3>1, Bounds
    <3>3. base = SubSeq(path, Folder!Min(named), Folder!Max(named))
      BY <2>2 DEF Folder!Inner
    <3>4. base \in Seq(Names)
      <4> HIDE DEF named
      <4> QED
        BY <2>0, <3>2, <3>3
    <3> QED
      BY <3>4, LenProperties
  <2> QED
    BY <2>1, <2>2
<1>2. ASSUME NEW q \in Folder!Keys, Len(q) > Len(base)
      PROVE  [name |-> q[Len(base) + 1], kind |-> IF Len(q) = Len(base) + 1 THEN "file" ELSE "dir"]
               \in Folder!Entry
  <2> HIDE DEF base
  <2>1. q \in Seq(Names)
    BY TreeShape, PathShape DEF Folder!Keys
  <2>2. Len(base) + 1 \in 1 .. Len(q)
    BY <1>1, <1>2, <2>1, LenProperties
  <2>3. q[Len(base) + 1] \in Names
    BY <2>1, <2>2, ElementOfSeq
  <2> QED
    BY <2>3 DEF Folder!Entry
<1> QED
  BY <1>2 DEF Folder!PageListing

\* The path p is a place of that kind that the host shows.
Placed(p, kind) ==
  p \in Folder!Paths /\ Places[p] = kind /\ (host = "python" => Shown(p))

Aim(type) == IF type = "get" THEN "file" ELSE "dir"

\* A visitor who clicks gets nowhere but to places of the folder: whatever has
\* become of it meanwhile, a place keeps its kind.
Walks ==
  Folder!PlainNames /\ visitor = "page" =>
    /\ Placed(view.path, "dir")
    /\ \A e \in view.entries : Placed(Append(view.path, e.name), e.kind)
    /\ \A k \in DOMAIN asks : Placed(asks[k].path, Aim(asks[k].type))

\* What is not out of date is as the folder is.
Fresh ==
  /\ view.still => view.entries \subseteq Folder!HostListing(view.path)
  /\ \A k \in DOMAIN asks : asks[k].clicked => visitor = "page"
  /\ Folder!PlainNames =>
       \A k \in DOMAIN asks : asks[k].clicked /\ asks[k].still => asks[k].path \in DOMAIN tree

FolderTypes ==
  /\ host \in {"python", "page"} /\ visitor \in {"page", "cli"} /\ tree \in Folder!Trees
  /\ asks \in Seq(Folder!Ask)
  /\ view \in [path : Seq(Names), entries : SUBSET Folder!Entry, still : BOOLEAN]
  /\ silent \in BOOLEAN

FolderInv ==
  /\ FolderTypes /\ Walks /\ Fresh /\ Folder!Confined
  /\ host = "python" => \A e \in view.entries : e.name \notin Hidden

LEMMA HostRows ==
  ASSUME Folder!PlainNames, FolderTypes, NEW p, Placed(p, "dir"), NEW e \in Folder!HostListing(p)
  PROVE  /\ Append(p, e.name) \in DOMAIN tree /\ tree[Append(p, e.name)] = e.kind
         /\ Placed(Append(p, e.name), e.kind)
<1>0. p \in Folder!Paths /\ Places[p] = "dir" /\ tree \in Folder!Trees /\ p \in Seq(Names)
  BY PathShape DEF Placed, FolderTypes
<1>1. CASE host = "page"
  <2>1. e \in PageRows(p)
    BY <1>0, <1>1, PageListingOfPlace DEF Folder!HostListing
  <2>2. Append(p, e.name) \in DOMAIN tree /\ tree[Append(p, e.name)] = e.kind
    BY <1>0, <2>1, PageRowsPlaced
  <2> QED
    BY <1>0, <1>1, <2>2, TreeShape DEF Placed
<1>2. CASE host = "python"
  <2>0. Shown(p)
    BY <1>2 DEF Placed
  <2>1. ~Folder!Is(p, "link")
    BY <1>0, TreeShape DEF Folder!Is
  <2>2. e \in Rows(p)
    BY <1>0, <1>2, <2>0, <2>1, ListingOfPlace DEF Folder!HostListing
  <2>3. /\ e.name \in Names /\ e.name \notin Hidden
        /\ Append(p, e.name) \in DOMAIN tree /\ tree[Append(p, e.name)] = e.kind
    BY <1>0, <2>2, RowsPlaced DEF Folder!Entry
  <2>4. Shown(Append(p, e.name))
    BY <1>0, <2>0, <2>3 DEF Shown
  <2> QED
    BY <1>0, <2>3, <2>4, TreeShape DEF Placed
<1> QED
  BY <1>1, <1>2 DEF FolderTypes

\* No host shows more than rows, and the Python host no dotfiles.
LEMMA HostListingTyped ==
  ASSUME FolderTypes, NEW path \in Seq(Names)
  PROVE  /\ Folder!HostListing(path) \subseteq Folder!Entry
         /\ host = "python" => \A e \in Folder!HostListing(path) : e.name \notin Hidden
<1>1. CASE host = "page"
  BY <1>1, PageListingTyped DEF FolderTypes, Folder!HostListing
<1>2. CASE host = "python"
  <2> SUFFICES ASSUME NEW e \in Folder!Listing(path)
               PROVE  e \in Folder!Entry /\ e.name \notin Hidden
    BY <1>2 DEF Folder!HostListing
  <2> QED
    BY ListingRows, RowsPlaced DEF FolderTypes
<1> QED
  BY <1>1, <1>2 DEF FolderTypes

LEMMA FolderInit == Folder!Init => FolderInv
<1> SUFFICES ASSUME Folder!Init PROVE FolderInv
  OBVIOUS
<1>1. FolderTypes
  <2>1. <<>> \in Seq(Folder!Ask) /\ <<>> \in Seq(Names)
    BY EmptySeq
  <2>2. view \in [path : Seq(Names), entries : SUBSET Folder!Entry, still : BOOLEAN]
    BY <2>1 DEF Folder!Init
  <2> QED
    BY <2>1, <2>2 DEF Folder!Init, FolderTypes
<1>2. <<>> \in Folder!Paths /\ Places[<<>>] = "dir"
  BY PartsAssumption DEF Folder!ShareAssumption
<1>3. Walks
  BY <1>2 DEF Folder!Init, Walks, Placed, Shown
<1> QED
  BY <1>1, <1>3 DEF Folder!Init, FolderInv, Fresh, Folder!Confined

LEMMA PrefixOfPrefix ==
  ASSUME NEW p \in Seq(Names), NEW m \in 0 .. Len(p), NEW k \in 0 .. m
  PROVE  SubSeq(SubSeq(p, 1, m), 1, k) = SubSeq(p, 1, k) /\ k \in 0 .. Len(p)
<1>0. Len(p) \in Nat /\ m \in Nat /\ k \in Nat /\ k <= Len(p)
  BY LenProperties
<1>1. PICK q \in Seq(Names) : q = SubSeq(p, 1, m) /\ Len(q) = m /\ \A i \in 1 .. m : q[i] = p[i]
  <2>1. /\ SubSeq(p, 1, m) \in Seq(Names) /\ Len(SubSeq(p, 1, m)) = m
        /\ \A i \in 1 .. m : SubSeq(p, 1, m)[i] = p[i]
    BY <1>0
  <2> QED
    BY <2>1
<1>2. SubSeq(q, 1, k) \in Seq(Names) /\ Len(SubSeq(q, 1, k)) = k
  BY <1>0, <1>1
<1>3. SubSeq(p, 1, k) \in Seq(Names) /\ Len(SubSeq(p, 1, k)) = k
  BY <1>0
<1>4. \A i \in 1 .. k : SubSeq(q, 1, k)[i] = SubSeq(p, 1, k)[i]
  BY <1>0, <1>1
<1>5. SubSeq(q, 1, k) = SubSeq(p, 1, k)
  BY <1>2, <1>3, <1>4, SeqEqual
<1> QED
  BY <1>0, <1>1, <1>5

\* The folder changes: everything that was listed or asked for is out of date.
LEMMA OutdatedKeeps ==
  ASSUME FolderInv, tree' \in Folder!Trees', Folder!Outdated,
         UNCHANGED <<host, visitor, got, silent>>
  PROVE  FolderInv'
<1>0. FolderTypes /\ view' = [view EXCEPT !.still = FALSE]
      /\ asks' = [k \in DOMAIN asks |-> [asks[k] EXCEPT !.still = FALSE]]
  BY DEF FolderInv, Folder!Outdated
<1>1. asks \in Seq(Folder!Ask) /\ Len(asks) \in Nat /\ DOMAIN asks = 1 .. Len(asks)
      /\ \A k \in DOMAIN asks : asks[k] \in Folder!Ask
  BY <1>0, LenProperties, ElementOfSeq DEF FolderTypes
<1>2. /\ asks' \in Seq(Folder!Ask) /\ DOMAIN asks' = DOMAIN asks
      /\ \A k \in DOMAIN asks : /\ asks'[k].type = asks[k].type /\ asks'[k].path = asks[k].path
                                /\ asks'[k].clicked = asks[k].clicked /\ asks'[k].still = FALSE
  <2>1. \A k \in DOMAIN asks : [asks[k] EXCEPT !.still = FALSE] \in Folder!Ask
    BY <1>1 DEF Folder!Ask
  <2>2. asks' \in [1 .. Len(asks) -> Folder!Ask]
    BY <1>0, <1>1, <2>1
  <2>3. asks' \in Seq(Folder!Ask)
    BY <1>1, <2>2, SeqDef
  <2> QED
    BY <1>0, <1>1, <2>2, <2>3 DEF Folder!Ask
<1>3. /\ view' \in [path : Seq(Names), entries : SUBSET Folder!Entry, still : BOOLEAN]
      /\ view'.path = view.path /\ view'.entries = view.entries /\ view'.still = FALSE
  BY <1>0 DEF FolderTypes
<1>4. FolderTypes'
  BY <1>0, <1>2, <1>3 DEF FolderTypes
<1>5. Walks'
  BY <1>2, <1>3 DEF FolderInv, Walks, Placed, Shown, Folder!Paths
<1>6. Fresh'
  BY <1>2, <1>3 DEF FolderInv, Fresh
<1> QED
  BY <1>3, <1>4, <1>5, <1>6 DEF FolderInv, Folder!Confined, Folder!Within

LEMMA AppearsKeeps ==
  ASSUME FolderInv, NEW p \in Folder!Paths \ {<<>>}, Folder!Appears(p)
  PROVE  FolderInv'
<1> USE DEF Folder!Appears, Folder!Outdated
<1>0. FolderTypes /\ view' = [view EXCEPT !.still = FALSE] /\ p \in Folder!Paths
  BY DEF FolderInv
<1>1. tree' \in Folder!Trees'
  <2> DEFINE ps == DOMAIN tree \cup Folder!Prefixes(p)
  <2>0. /\ p \in Seq(Names) /\ Len(p) \in Nat /\ SubSeq(p, 1, Len(p)) = p
        /\ \A k \in 0 .. Len(p) - 1 : SubSeq(p, 1, k) \in Folder!Paths
    BY PathShape
  <2>1. ASSUME NEW q \in Folder!Prefixes(p)
        PROVE  q \in Folder!Paths /\ \A k \in 0 .. Len(q) : SubSeq(q, 1, k) \in Folder!Prefixes(p)
    <3>1. PICK m \in 0 .. Len(p) : q = SubSeq(p, 1, m)
      BY DEF Folder!Prefixes
    <3>2. m = Len(p) \/ m \in 0 .. Len(p) - 1
      BY <2>0
    <3>3. q \in Folder!Paths
      BY <2>0, <3>1, <3>2
    <3>4. Len(q) = m /\ m \in Nat
      BY <2>0, <3>1
    <3>5. ASSUME NEW k \in 0 .. m PROVE SubSeq(q, 1, k) = SubSeq(p, 1, k) /\ k \in 0 .. Len(p)
      BY <2>0, <3>1, PrefixOfPrefix
    <3> QED
      BY <3>3, <3>4, <3>5 DEF Folder!Prefixes
  <2>2. ps \in SUBSET Folder!Paths /\ <<>> \in ps
    BY <1>0, <2>1, TreeShape DEF FolderTypes
  <2>3. \A q \in ps : \A k \in 0 .. Len(q) : SubSeq(q, 1, k) \in ps
    BY <1>0, <2>1, TreeShape DEF FolderTypes
  <2>4. [q \in ps |-> Places[q]] \in Folder!Trees
    <3> HIDE DEF ps
    <3> QED
      BY <2>2, <2>3, TreeMade
  <2> QED
    BY <2>4 DEF Folder!Trees, Folder!Paths
<1>2. asks' = [k \in DOMAIN asks |-> [asks[k] EXCEPT !.still = FALSE]]
  OBVIOUS
<1> QED
  BY <1>0, <1>1, <1>2, OutdatedKeeps

LEMMA VanishesKeeps ==
  ASSUME FolderInv, NEW p \in Folder!Paths \ {<<>>}, Folder!Vanishes(p)
  PROVE  FolderInv'
<1>0. FolderTypes
  BY DEF FolderInv
<1>1. tree' \in Folder!Trees'
  <2> DEFINE ps == DOMAIN tree \ {p}
  <2>1. ps \in SUBSET Folder!Paths /\ <<>> \in ps
    BY <1>0, TreeShape DEF FolderTypes
  <2>2. ASSUME NEW q \in ps, NEW k \in 0 .. Len(q) PROVE SubSeq(q, 1, k) \in ps
    <3>0. q \in Seq(Names) /\ Len(q) \in Nat /\ SubSeq(q, 1, Len(q)) = q
      BY <2>1, PathShape
    <3>1. \A j \in 0 .. Len(q) : SubSeq(q, 1, j) \in DOMAIN tree
      BY <1>0, TreeShape DEF FolderTypes
    <3>2. SUFFICES ASSUME SubSeq(q, 1, k) = p PROVE FALSE
      BY <3>1
    <3>3. k # Len(q)
      BY <3>0, <3>2
    <3>4. k + 1 \in 1 .. Len(q) /\ k + 1 \in 0 .. Len(q) /\ k \in Nat
      BY <3>0, <3>3
    <3>5. q[k + 1] \in Names
      BY <3>0, <3>4, ElementOfSeq
    <3>6. Append(p, q[k + 1]) = SubSeq(q, 1, k + 1)
      <4>1. SubSeq(q, 1, k + 1) \in Seq(Names) /\ Len(SubSeq(q, 1, k + 1)) = k + 1
        BY <3>0, <3>4
      <4>2. p \in Seq(Names) /\ Len(p) = k /\ \A i \in 1 .. k : p[i] = q[i]
        BY <3>0, <3>2, <3>4
      <4>3. Append(p, q[k + 1]) \in Seq(Names) /\ Len(Append(p, q[k + 1])) = k + 1
        BY <3>5, <4>2
      <4>4. \A i \in 1 .. k + 1 : Append(p, q[k + 1])[i] = SubSeq(q, 1, k + 1)[i]
        BY <3>0, <3>4, <3>5, <4>2
      <4> QED
        BY <4>1, <4>3, <4>4, SeqEqual
    <3>7. Append(p, q[k + 1]) \in DOMAIN tree
      BY <3>1, <3>4, <3>6
    <3> QED
      BY <3>5, <3>7 DEF Folder!Vanishes, Folder!Children
  <2>3. [q \in ps |-> Places[q]] \in Folder!Trees
    <3> HIDE DEF ps
    <3> QED
      BY <2>1, <2>2, TreeMade
  <2> QED
    BY <2>3 DEF Folder!Vanishes, Folder!Trees, Folder!Paths
<1> QED
  BY <1>1, OutdatedKeeps DEF Folder!Vanishes

\* The symlinks on a path, and where it leads with these on it.
LinksOf(p) == {k \in DOMAIN p : Folder!Is(SubSeq(p, 1, k), "link")}
Target(p, links) ==
  IF links = {} THEN p
  ELSE LET k == CHOOSE k \in links : \A m \in links : k <= m
       IN LinkTo[p[k]] \o SubSeq(p, k + 1, Len(p))

\* While the folder stays, so does what is listed of it.
LEMMA SameListing ==
  ASSUME UNCHANGED <<host, tree>>, NEW path
  PROVE  Folder!HostListing(path)' = Folder!HostListing(path)
<1>2. ASSUME NEW p PROVE Folder!Is(p, "dir")' = Folder!Is(p, "dir") /\ Folder!Is(p, "link")' = Folder!Is(p, "link")
  BY DEF Folder!Is
<1>3. ASSUME NEW p PROVE Folder!Real(p)' = Folder!Real(p)
  <2>1. LinksOf(p)' = LinksOf(p)
    BY <1>2 DEF LinksOf
  <2>2. Folder!Real(p) = Target(p, LinksOf(p)) /\ Folder!Real(p)' = Target(p, LinksOf(p)')
    BY DEF Folder!Real, LinksOf, Target
  <2> QED
    BY <2>1, <2>2
<1>4. Folder!Resolve(path)' = Folder!Resolve(path)
  BY <1>3 DEF Folder!Resolve, Folder!Parts, Folder!Within
<1>5. ASSUME NEW p PROVE Rows(p)' = Rows(p)
  BY <1>2 DEF Rows, Folder!Children
<1>6. Folder!Listing(path)' = Folder!Listing(path)
  BY <1>2, <1>4, <1>5 DEF Folder!Listing, Rows
<1>7. Folder!PageListing(path)' = Folder!PageListing(path)
  BY DEF Folder!PageListing, Folder!Inner, Folder!Keys
<1> QED
  BY <1>6, <1>7 DEF Folder!HostListing

\* A visitor asks, by a click for what a row names or by what was typed.
LEMMA RequestKeeps ==
  ASSUME FolderInv, NEW type \in {"browse", "get"}, NEW path \in Seq(Names), NEW clicked \in BOOLEAN,
         Folder!PlainNames /\ visitor = "page" => Placed(path, Aim(type)),
         clicked => visitor = "page",
         Folder!PlainNames /\ clicked /\ view.still => path \in DOMAIN tree,
         Folder!Requests(type, path, clicked)
  PROVE  FolderInv'
<1> DEFINE ask == [type |-> type, path |-> path, clicked |-> clicked, still |-> view.still]
<1>0. FolderTypes /\ asks' = Append(asks, ask) /\ UNCHANGED <<host, visitor, tree, view, got, silent>>
  BY DEF FolderInv, Folder!Requests
<1>1. ask \in Folder!Ask
  BY <1>0 DEF Folder!Ask, FolderTypes
<1>2. asks \in Seq(Folder!Ask) /\ Len(asks) \in Nat /\ DOMAIN asks = 1 .. Len(asks)
  BY <1>0, LenProperties DEF FolderTypes
<1>3. /\ asks' \in Seq(Folder!Ask)
      /\ \A k \in DOMAIN asks' : asks'[k] = ask \/ (k \in DOMAIN asks /\ asks'[k] = asks[k])
  <2> HIDE DEF ask
  <2> QED
    BY <1>0, <1>1, <1>2, AppendProperties
<1>4. FolderTypes'
  BY <1>0, <1>3 DEF FolderTypes
<1>5. Walks'
  <2>1. ASSUME Folder!PlainNames, visitor = "page", NEW k \in DOMAIN asks'
        PROVE  Placed(asks'[k].path, Aim(asks'[k].type))
    BY <1>3, <2>1 DEF FolderInv, Walks
  <2> QED
    BY <1>0, <2>1 DEF FolderInv, Walks, Placed
<1>6. Fresh'
  <2>0. PICK p : p = view.path
    OBVIOUS
  <2>a. Folder!HostListing(p)' = Folder!HostListing(p)
    BY <1>0, SameListing
  <2>1. Folder!HostListing(view.path)' = Folder!HostListing(view.path)
    BY <1>0, <2>0, <2>a
  <2>2. ASSUME NEW k \in DOMAIN asks'
        PROVE  /\ asks'[k].clicked => visitor = "page"
               /\ Folder!PlainNames /\ asks'[k].clicked /\ asks'[k].still => asks'[k].path \in DOMAIN tree
    BY <1>3, <2>2 DEF FolderInv, Fresh
  <2> QED
    BY <1>0, <2>1, <2>2 DEF FolderInv, Fresh
<1> QED
  BY <1>0, <1>4, <1>5, <1>6 DEF FolderInv, Folder!Confined, Folder!Within

LEMMA VisitKeeps ==
  ASSUME FolderInv, visitor = "page",
         Folder!Opens \/ Folder!Up \/ \E e \in view.entries : Folder!Click(e)
  PROVE  FolderInv'
<1>0. /\ FolderTypes /\ Walks /\ Fresh /\ view.path \in Seq(Names)
      /\ Folder!PlainNames => Placed(view.path, "dir")
  BY DEF FolderInv, Walks, FolderTypes
<1>1. CASE Folder!Opens
  <2>1. <<>> \in Folder!Paths /\ Places[<<>>] = "dir" /\ <<>> \in Seq(Names)
    BY EmptySeq, PartsAssumption DEF Folder!ShareAssumption
  <2>2. Placed(<<>>, Aim("browse"))
    BY <2>1 DEF Placed, Aim, Shown
  <2>3. Folder!Requests("browse", <<>>, FALSE)
    BY <1>1 DEF Folder!Opens
  <2> QED
    BY <2>1, <2>2, <2>3, RequestKeeps
<1>2. CASE Folder!Up
  <2>0. view.path # <<>> /\ Len(view.path) \in Nat
    BY <1>0, <1>2, LenProperties DEF Folder!Up
  <2>1. PICK m \in Nat : m = Len(view.path) - 1 /\ m \in 0 .. Len(view.path) - 1
    <3>1. Len(view.path) # 0
      BY <1>0, <2>0, EmptySeq
    <3>2. Len(view.path) - 1 \in Nat /\ Len(view.path) - 1 \in 0 .. Len(view.path) - 1
      BY <2>0, <3>1
    <3> QED
      BY <3>2
  <2>2. PICK p : p = SubSeq(view.path, 1, m)
    OBVIOUS
  <2>3. p \in Seq(Names) /\ DOMAIN p \subseteq DOMAIN view.path /\ \A i \in DOMAIN p : p[i] = view.path[i]
    BY <1>0, <2>0, <2>1, <2>2
  <2>4. ASSUME Folder!PlainNames PROVE Placed(p, Aim("browse"))
    <3>1. Placed(view.path, "dir")
      BY <1>0, <2>4
    <3>2. p \in Folder!Paths /\ Places[p] = "dir"
      BY <2>1, <2>2, <3>1, PathShape DEF Placed
    <3>3. Shown(view.path) => Shown(p)
      BY <2>3 DEF Shown
    <3> QED
      BY <3>1, <3>2, <3>3 DEF Placed, Aim
  <2>5. Folder!Requests("browse", p, FALSE)
    BY <1>2, <2>1, <2>2 DEF Folder!Up, Folder!Front
  <2> QED
    BY <2>3, <2>4, <2>5, RequestKeeps
<1>3. ASSUME NEW e \in view.entries, Folder!Click(e) PROVE FolderInv'
  <2>0. e \in Folder!Entry
    BY <1>0 DEF FolderTypes
  <2>1. PICK type \in {"browse", "get"} : type = IF e.kind = "dir" THEN "browse" ELSE "get"
    OBVIOUS
  <2>2. PICK p : p = Append(view.path, e.name)
    OBVIOUS
  <2>3. ASSUME Folder!PlainNames PROVE Placed(p, Aim(type)) /\ (view.still => p \in DOMAIN tree)
    <3>1. Placed(p, e.kind)
      BY <1>0, <2>2, <2>3 DEF Walks
    <3>2. Placed(p, Aim(type))
      BY <2>0, <2>1, <3>1 DEF Aim, Folder!Entry
    <3>3. view.still => p \in DOMAIN tree
      BY <1>0, <2>2, <2>3, HostRows DEF Fresh
    <3> QED
      BY <3>2, <3>3
  <2>4. Folder!Requests(type, p, TRUE)
    BY <1>3, <2>1, <2>2 DEF Folder!Click
  <2>5. p \in Seq(Names)
    BY <1>0, <2>0, <2>2 DEF Folder!Entry
  <2> QED
    BY <2>3, <2>4, <2>5, RequestKeeps
<1> QED
  BY <1>1, <1>2, <1>3

LEMMA TypesKeeps ==
  ASSUME FolderInv, visitor = "cli", NEW path \in Typed, Folder!Types(path)
  PROVE  FolderInv'
<1>1. PICK type \in {"browse", "get"} : Folder!Requests(type, path, FALSE)
  BY DEF Folder!Types
<1>2. path \in Seq(Names)
  BY PartsAssumption DEF Folder!ShareAssumption
<1> QED
  BY <1>1, <1>2, RequestKeeps

LEMMA AnswerKeeps ==
  ASSUME FolderInv, Folder!Answer
  PROVE  FolderInv'
<1>0. /\ FolderTypes /\ Walks /\ Fresh /\ asks # <<>> /\ asks' = Tail(asks)
      /\ UNCHANGED <<host, visitor, tree>>
  BY DEF FolderInv, Folder!Answer
<1>1. PICK ask \in Folder!Ask : ask = Head(asks) /\ ask = asks[1] /\ 1 \in DOMAIN asks
  <2>1. asks \in Seq(Folder!Ask) /\ Head(asks) = asks[1] /\ 1 \in DOMAIN asks
    BY <1>0 DEF FolderTypes
  <2>2. Head(asks) \in Folder!Ask
    BY <1>0, <2>1, HeadTailProperties
  <2> QED
    BY <2>1, <2>2
<1>2. /\ asks' \in Seq(Folder!Ask)
      /\ \A k \in DOMAIN asks' : k + 1 \in DOMAIN asks /\ asks'[k] = asks[k + 1]
  <2>1. asks \in Seq(Folder!Ask)
    BY <1>0 DEF FolderTypes
  <2> QED
    BY <1>0, <2>1
<1>3. PICK path \in Seq(Names) : path = ask.path
  BY DEF Folder!Ask
<1>4. /\ \A k \in DOMAIN asks' : asks'[k].clicked => visitor = "page"
      /\ Folder!PlainNames =>
           \A k \in DOMAIN asks' : asks'[k].clicked /\ asks'[k].still => asks'[k].path \in DOMAIN tree
  BY <1>0, <1>2 DEF Fresh
<1>5. Folder!PlainNames /\ visitor = "page" =>
        \A k \in DOMAIN asks' : Placed(asks'[k].path, Aim(asks'[k].type))
  <2> SUFFICES ASSUME Folder!PlainNames, visitor = "page", NEW k \in DOMAIN asks'
               PROVE  Placed(asks'[k].path, Aim(asks'[k].type))
    OBVIOUS
  <2>1. k + 1 \in DOMAIN asks /\ asks'[k] = asks[k + 1]
    BY <1>2
  <2>2. Placed(asks[k + 1].path, Aim(asks[k + 1].type))
    BY <1>0, <2>1 DEF Walks
  <2> QED
    BY <2>1, <2>2
<1>6. CASE ask.type = "browse" /\ Folder!OnBrowse(ask.path) /\ UNCHANGED <<got, silent>>
  <2>1. /\ view'.path = path /\ view'.entries = Folder!HostListing(path) /\ view'.still = TRUE
        /\ view' = [path |-> path, entries |-> Folder!HostListing(path), still |-> TRUE]
    BY <1>3, <1>6 DEF Folder!OnBrowse
  <2>2. /\ Folder!HostListing(path) \subseteq Folder!Entry
        /\ host = "python" => \A e \in Folder!HostListing(path) : e.name \notin Hidden
    BY <1>0, HostListingTyped
  <2>3. FolderTypes'
    BY <1>0, <1>2, <1>6, <2>1, <2>2 DEF FolderTypes
  <2>4. Walks'
    <3> SUFFICES ASSUME Folder!PlainNames, visitor = "page"
                 PROVE  Placed(path, "dir") /\ \A e \in Folder!HostListing(path) : Placed(Append(path, e.name), e.kind)
      BY <1>0, <1>5, <2>1 DEF Walks, Placed
    <3>1. Placed(path, "dir")
      BY <1>0, <1>1, <1>3, <1>6 DEF Walks, Aim
    <3> QED
      BY <1>0, <3>1, HostRows
  <2>5. Fresh'
    <3>1. Folder!HostListing(path)' = Folder!HostListing(path)
      BY <1>0, SameListing
    <3>2. Folder!HostListing(view.path)' = Folder!HostListing(path)
      BY <2>1, <3>1
    <3> QED
      BY <1>0, <1>4, <2>1, <3>2 DEF Fresh
  <2> QED
    BY <1>0, <1>6, <2>1, <2>2, <2>3, <2>4, <2>5 DEF FolderInv, Folder!Confined, Folder!Within
<1>7. CASE UNCHANGED view /\ (UNCHANGED got \/ got' = Folder!HostRead(path)) /\ silent' \in BOOLEAN
  <2>1. FolderTypes'
    BY <1>0, <1>2, <1>7 DEF FolderTypes
  <2>2. Walks'
    BY <1>0, <1>5, <1>7 DEF Walks, Placed
  <2>3. Fresh'
    <3>1. PICK p : p = view.path
      OBVIOUS
    <3>2. Folder!HostListing(p)' = Folder!HostListing(p)
      BY <1>0, SameListing
    <3>3. Folder!HostListing(view.path)' = Folder!HostListing(view.path)
      BY <1>7, <3>1, <3>2
    <3> QED
      BY <1>0, <1>4, <1>7, <3>3 DEF Fresh
  <2>4. Folder!Confined'
    <3> SUFFICES ASSUME NEW real \in Folder!HostRead(path) PROVE Folder!Within(real)
      BY <1>7 DEF FolderInv, Folder!Confined, Folder!Within
    <3>1. CASE host = "page"
      <4>1. real \in DOMAIN tree
        BY <3>1 DEF Folder!HostRead, Folder!PageRead, Folder!Keys
      <4>2. real \in Folder!Paths
        BY <1>0, <4>1, TreeShape DEF FolderTypes
      <4>3. real \in Seq(Names) /\ \A k \in 1 .. Len(real) : real[k] # Outside
        BY <4>2, PathShape
      <4> QED
        BY <4>3 DEF Folder!Within
    <3>2. CASE host = "python"
      BY <3>2 DEF Folder!HostRead, Folder!Read, Folder!Resolve
    <3> QED
      BY <1>0, <3>1, <3>2 DEF FolderTypes
  <2> QED
    BY <1>0, <1>7, <2>1, <2>2, <2>3, <2>4 DEF FolderInv
<1> QED
  BY <1>0, <1>1, <1>3, <1>6, <1>7 DEF Folder!Answer, FolderTypes

LEMMA FolderStep == FolderInv /\ [Folder!Next]_(Folder!vars) => FolderInv'
<1> SUFFICES ASSUME FolderInv, [Folder!Next]_(Folder!vars) PROVE FolderInv'
  OBVIOUS
<1>1. CASE UNCHANGED Folder!vars
  <2>1. UNCHANGED <<host, visitor, tree, asks, view, got, silent>>
    BY <1>1 DEF Folder!vars
  <2>2. Folder!HostListing(view.path)' = Folder!HostListing(view.path)
    <3>1. PICK p : p = view.path
      OBVIOUS
    <3>2. Folder!HostListing(p)' = Folder!HostListing(p)
      BY <2>1, SameListing
    <3> QED
      BY <2>1, <3>1, <3>2
  <2> QED
    BY <2>1, <2>2 DEF FolderInv, FolderTypes, Walks, Fresh, Placed, Folder!Confined, Folder!Within
<1> QED
  BY <1>1, AppearsKeeps, VanishesKeeps, VisitKeeps, TypesKeeps, AnswerKeeps DEF Folder!Next

-----------------------------------------------------------------------------
(* What follows of a state of the folder. *)

LEMMA RowsLead == Folder!PlainNames /\ FolderInv => ClickLeads
<1> SUFFICES ASSUME Folder!PlainNames, FolderInv PROVE ClickLeads
  OBVIOUS
<1>0. FolderTypes /\ Walks /\ Fresh
  BY DEF FolderInv
<1>1. Folder!TypeOK
  BY <1>0 DEF FolderTypes, Folder!TypeOK
<1>2. ASSUME NEW k \in DOMAIN asks, asks[k].clicked, asks[k].still PROVE Folder!Leads(asks[k])
  <2>0. PICK p : p = asks[k].path
    OBVIOUS
  <2>a. asks[k] \in Folder!Ask
    BY <1>0, <1>2, ElementOfSeq, LenProperties DEF FolderTypes
  <2>1. PICK type \in {"browse", "get"} : type = asks[k].type
    BY <2>a DEF Folder!Ask
  <2>2. Placed(p, Aim(type)) /\ p \in DOMAIN tree /\ tree[p] = Aim(type) /\ tree \in Folder!Trees
    BY <1>0, <1>2, <2>0, <2>1, TreeShape DEF Walks, Fresh, Placed, FolderTypes
  <2>3. CASE type = "browse"
    BY <2>0, <2>1, <2>2, <2>3 DEF Folder!Leads, Folder!Is, Aim
  <2>4. CASE type = "get"
    <3>1. tree[p] = "file" /\ Folder!Is(p, "file") /\ ~Folder!Is(p, "link")
      BY <2>2, <2>4 DEF Aim, Folder!Is
    <3>2. CASE host = "page"
      BY <2>0, <2>1, <2>2, <2>4, <3>1, <3>2 DEF Folder!Leads, Folder!HostRead, Folder!PageRead, Folder!Keys
    <3>3. CASE host = "python"
      <4>1. Folder!Resolve(p) = {p}
        BY <2>2, <3>1, <3>3, ResolveOfPlace DEF Placed
      <4>2. Folder!Read(p) = {p}
        BY <3>1, <4>1 DEF Folder!Read
      <4> QED
        BY <2>0, <2>1, <2>4, <3>3, <4>2 DEF Folder!Leads, Folder!HostRead
    <3> QED
      BY <1>0, <3>2, <3>3 DEF FolderTypes
  <2> QED
    BY <2>3, <2>4
<1> QED
  BY <1>1, <1>2 DEF ClickLeads, Folder!ClickLeads

LEMMA SymlinksOmitted == Folder!PlainNames /\ FolderInv => Folder!PythonOmits
<1> SUFFICES ASSUME Folder!PlainNames, FolderInv, host = "python", NEW e \in view.entries,
                    view.still, Folder!Is(Append(view.path, e.name), "link")
             PROVE  FALSE
  BY DEF Folder!PythonOmits, Folder!Omits, FolderInv
<1>0. FolderTypes /\ Fresh
  BY DEF FolderInv
<1>1. PICK p \in Seq(Names) : p = view.path
  BY <1>0 DEF FolderTypes
<1>2. e \in Folder!Listing(p)
  BY <1>0, <1>1 DEF Fresh, Folder!HostListing
<1>3. e.name \in Names /\ Append(p, e.name) \in Folder!Paths
  BY <1>0, <1>1, TreeShape DEF FolderTypes, Folder!Is, Folder!Entry
<1>4. p \in Folder!Paths /\ Places[p] = "dir"
  BY <1>3, RowPath
<1>5. Shown(p)
  <2>1. Folder!Resolve(p) # {}
    BY <1>2, ListingRows
  <2>2. Folder!Parts(p) = p
    BY <1>4, PartsOfPlace
  <2> QED
    BY <2>1, <2>2 DEF Folder!Resolve, Shown
<1>6. ~Folder!Is(p, "link")
  BY <1>0, <1>4, TreeShape DEF Folder!Is, FolderTypes
<1>7. e \in Rows(p)
  BY <1>0, <1>2, <1>4, <1>5, <1>6, ListingOfPlace DEF FolderTypes
<1> QED
  BY <1>1, <1>7 DEF Rows

\* A name is appended to a path, and what lies beyond lies under both.
LEMMA Beyond ==
  ASSUME NEW p \in Seq(Names), NEW n \in Names, NEW q \in Seq(Names),
         Len(q) >= Len(p) + 1, Folder!IsPrefix(Append(p, n), q)
  PROVE  Folder!IsPrefix(p, q) /\ q[Len(p) + 1] = n
<1>0. Len(p) \in Nat /\ Len(q) \in Nat
  BY LenProperties
<1>1. PICK m \in Nat : m = Len(p)
  BY <1>0
<1>2. PICK r \in Seq(Names) :
        /\ r = Append(p, n) /\ Len(r) = m + 1 /\ r[m + 1] = n /\ \A i \in 1 .. m : r[i] = p[i]
  <2>1. /\ Append(p, n) \in Seq(Names) /\ Len(Append(p, n)) = m + 1 /\ Append(p, n)[m + 1] = n
        /\ \A i \in 1 .. m : Append(p, n)[i] = p[i]
    BY <1>1
  <2> QED
    BY <2>1
<1>3. SubSeq(q, 1, m + 1) = r
  BY <1>0, <1>1, <1>2 DEF Folder!IsPrefix
<1>4. \A i \in 1 .. m + 1 : r[i] = q[i]
  BY <1>0, <1>1, <1>3
<1>5. SubSeq(q, 1, m) \in Seq(Names) /\ Len(SubSeq(q, 1, m)) = m /\ \A i \in 1 .. m : SubSeq(q, 1, m)[i] = q[i]
  BY <1>0, <1>1
<1>6. SubSeq(q, 1, m) = p
  <2>1. \A i \in 1 .. m : SubSeq(q, 1, m)[i] = p[i]
    BY <1>2, <1>4, <1>5
  <2> QED
    BY <1>1, <1>5, <2>1, SeqEqual
<1>7. m + 1 \in 1 .. m + 1
  OBVIOUS
<1> QED
  BY <1>0, <1>1, <1>2, <1>4, <1>6, <1>7 DEF Folder!IsPrefix

LEMMA PlainPlace ==
  ASSUME tree \in Folder!Trees, Folder!Plain, NEW p \in DOMAIN tree
  PROVE  p \in Folder!Paths /\ p \in Seq(Names) /\ Shown(p) /\ ~Folder!Is(p, "link")
<1>1. tree[p] # "link" /\ Folder!ToSet(p) \cap Hidden = {}
  BY DEF Folder!Plain
<1> QED
  BY <1>1, TreeShape, PathShape DEF Folder!ToSet, Folder!Is, Shown

\* What a page shows of a place is what a Python node lists, but for folders
\* in which there is no file.
LEMMA PageIsListing ==
  ASSUME Folder!PlainNames, tree \in Folder!Trees, Folder!Plain, NEW p \in DOMAIN tree
  PROVE  Folder!PageListing(p) =
           {e \in Folder!Listing(p) : e.kind = "file" \/ Folder!PageListing(Append(p, e.name)) # {}}
<1>0. p \in Folder!Paths /\ p \in Seq(Names) /\ Shown(p) /\ ~Folder!Is(p, "link") /\ Len(p) \in Nat
  BY PlainPlace, LenProperties
<1>1. /\ Folder!PageListing(p) = PageRows(p)
      /\ Folder!Listing(p) = IF Folder!Is(p, "dir") THEN Rows(p) ELSE {}
  BY <1>0, PageListingOfPlace, ListingOfPlace
<1>2. ASSUME NEW e \in PageRows(p)
      PROVE  /\ e \in Folder!Listing(p)
             /\ e.kind = "file" \/ Folder!PageListing(Append(p, e.name)) # {}
  <2>1. PICK q \in Folder!Keys :
          /\ Len(q) > Len(p) /\ Folder!IsPrefix(p, q)
          /\ e = [name |-> q[Len(p) + 1], kind |-> IF Len(q) = Len(p) + 1 THEN "file" ELSE "dir"]
    BY DEF PageRows
  <2>2. /\ q \in Folder!Paths /\ e.name \in Names /\ e.name = q[Len(p) + 1]
        /\ Append(p, e.name) = SubSeq(q, 1, Len(p) + 1)
        /\ Append(p, e.name) \in DOMAIN tree /\ tree[Append(p, e.name)] = e.kind
        /\ e.kind = IF Len(q) = Len(p) + 1 THEN "file" ELSE "dir"
    BY <1>0, <2>1, KeyRow
  <2>3. PICK r \in Folder!Paths : r = Append(p, e.name) /\ r \in Seq(Names)
    BY <2>2, TreeShape, PathShape
  <2>4. e.name \notin Hidden
    <3>1. q \in DOMAIN tree
      BY DEF Folder!Keys
    <3>2. Shown(q) /\ q \in Seq(Names) /\ Len(q) \in Nat
      BY <3>1, PlainPlace, LenProperties
    <3>3. Len(p) + 1 \in DOMAIN q
      BY <1>0, <2>1, <3>2, LenProperties
    <3> QED
      BY <2>2, <3>2, <3>3 DEF Shown
  <2>5. Folder!Is(p, "dir")
    BY <1>0, <2>2, <2>3, RowPath, TreeShape DEF Folder!Is
  <2>6. e \in Rows(p)
    <3>1. e.name \in Folder!Children(p) \ Hidden
      BY <2>2, <2>4 DEF Folder!Children
    <3>2. ~Folder!Is(Append(p, e.name), "link")
      BY <2>2 DEF Folder!Is
    <3>3. e = [name |-> e.name, kind |-> tree[Append(p, e.name)]]
      BY <2>1, <2>2
    <3> QED
      BY <3>1, <3>2, <3>3 DEF Rows
  <2>7. ASSUME e.kind # "file" PROVE Folder!PageListing(r) # {}
    <3>0. q \in Seq(Names) /\ Len(q) \in Nat
      BY <2>2, PathShape
    <3>1. Len(r) = Len(p) + 1 /\ Len(q) > Len(r)
      BY <1>0, <2>1, <2>2, <2>3, <2>7, <3>0
    <3>2. Folder!IsPrefix(r, q)
      BY <2>2, <2>3, <3>0, <3>1 DEF Folder!IsPrefix
    <3>3. PageRows(r) # {}
      BY <3>1, <3>2 DEF PageRows
    <3> QED
      BY <3>3, PageListingOfPlace
  <2> QED
    BY <1>1, <2>3, <2>5, <2>6, <2>7
<1>3. ASSUME NEW e \in Folder!Listing(p), e.kind = "file" \/ Folder!PageListing(Append(p, e.name)) # {}
      PROVE  e \in PageRows(p)
  <2>1. e \in Rows(p)
    BY <1>1
  <2>2. /\ e.name \in Names /\ e.kind \in {"dir", "file"} /\ e = [name |-> e.name, kind |-> e.kind]
        /\ Append(p, e.name) \in DOMAIN tree /\ tree[Append(p, e.name)] = e.kind
    BY <2>1, RowsPlaced DEF Folder!Entry
  <2>a. /\ Append(p, e.name) \in Folder!Paths /\ Append(p, e.name) \in Seq(Names)
        /\ Len(Append(p, e.name)) = Len(p) + 1 /\ Append(p, e.name)[Len(p) + 1] = e.name
    <3>1. Append(p, e.name) \in Folder!Paths
      BY <2>2, TreeShape
    <3>2. /\ Append(p, e.name) \in Seq(Names)
          /\ Len(Append(p, e.name)) = Len(p) + 1 /\ Append(p, e.name)[Len(p) + 1] = e.name
      BY <1>0, <2>2, AppendProperties
    <3> QED
      BY <3>1, <3>2
  <2>3. PICK r \in Folder!Paths :
          r = Append(p, e.name) /\ r \in Seq(Names) /\ Len(r) = Len(p) + 1 /\ r[Len(p) + 1] = e.name
    BY <2>a
  <2>4. CASE e.kind = "file"
    <3>1. r \in Folder!Keys /\ Len(r) > Len(p)
      BY <1>0, <2>2, <2>3, <2>4 DEF Folder!Keys
    <3>2. Folder!IsPrefix(r, r)
      BY <2>3, SubSeqFull DEF Folder!IsPrefix
    <3>3. Folder!IsPrefix(p, r)
      <4>1. Len(r) >= Len(p) + 1 /\ Folder!IsPrefix(Append(p, e.name), r)
        BY <1>0, <2>3, <3>2
      <4> QED
        BY <1>0, <2>2, <2>3, <4>1, Beyond
    <3>4. e = [name |-> r[Len(p) + 1], kind |-> IF Len(r) = Len(p) + 1 THEN "file" ELSE "dir"]
      BY <2>2, <2>3, <2>4
    <3> QED
      BY <3>1, <3>3, <3>4 DEF PageRows
  <2>5. CASE e.kind = "dir"
    <3>1. PageRows(r) # {}
      BY <1>3, <2>3, <2>5, PageListingOfPlace
    <3>2. PICK q \in Folder!Keys : Len(q) > Len(r) /\ Folder!IsPrefix(r, q)
      BY <3>1 DEF PageRows
    <3>3. q \in Seq(Names) /\ Len(q) \in Nat
      BY TreeShape, PathShape DEF Folder!Keys
    <3>4. Len(q) > Len(p) + 1 /\ Len(q) >= Len(p) + 1 /\ Len(q) > Len(p) /\ Len(q) # Len(p) + 1
      BY <1>0, <2>3, <3>2, <3>3
    <3>5. Folder!IsPrefix(p, q) /\ q[Len(p) + 1] = e.name
      BY <1>0, <2>2, <2>3, <3>2, <3>3, <3>4, Beyond
    <3>6. e = [name |-> q[Len(p) + 1], kind |-> IF Len(q) = Len(p) + 1 THEN "file" ELSE "dir"]
      BY <2>2, <2>5, <3>4, <3>5
    <3> QED
      BY <3>4, <3>5, <3>6 DEF PageRows
  <2> QED
    BY <2>2, <2>4, <2>5
<1> QED
  BY <1>1, <1>2, <1>3

LEMMA HostsShowTheSame == Folder!PlainNames /\ tree \in Folder!Trees => Folder!HostsAgree
<1> SUFFICES ASSUME Folder!PlainNames, tree \in Folder!Trees, Folder!Plain, NEW p \in DOMAIN tree
             PROVE  Folder!PageRead(p) = Folder!Read(p)
  BY PageIsListing DEF Folder!HostsAgree
<1>1. p \in Folder!Paths /\ Shown(p) /\ ~Folder!Is(p, "link")
  BY PlainPlace
<1>2. Folder!Resolve(p) = {p} /\ Folder!Within(p)
  BY <1>1, ResolveOfPlace, RealOfPlace
<1>3. Folder!Is(p, "file") <=> p \in Folder!Keys
  BY DEF Folder!Is, Folder!Keys
<1> QED
  BY <1>2, <1>3 DEF Folder!PageRead, Folder!Read

LEMMA FolderMeans == Folder!PlainNames /\ FolderInv => ClickLeads /\ FolderServed
<1> SUFFICES ASSUME Folder!PlainNames, FolderInv PROVE FolderServed
  BY RowsLead
<1>1. Folder!Confined /\ tree \in Folder!Trees
  BY DEF FolderInv, FolderTypes
<1> QED
  BY <1>1, SymlinksOmitted, HostsShowTheSame DEF FolderServed

\* Only the part of the behaviour that is the folder's changes it.
LEMMA FolderMoves == [MCNext]_<<part, vars, store, rings, folder>> => [Folder!Next]_(Folder!vars)
BY DEF MCNext, folder, Folder!vars

\* The strengthening, in every state of every behaviour.
THEOREM FolderInvariant == MCSpec => []FolderInv
<1>1. MCInit => FolderInv
  BY FolderInit DEF MCInit
<1>2. FolderInv /\ [MCNext]_<<part, vars, store, rings, folder>> => FolderInv'
  BY FolderMoves, FolderStep
<1> QED
  BY <1>1, <1>2, PTL DEF MCSpec

\* What a visitor is given lies in the folder, also by a path that begins there
\* and leaves it through a symlink (_resolve): for any file system, any names in
\* it, any paths that are typed and either kind of host.
THEOREM OnlyTheFolderIsGiven == MCSpec => []Folder!Confined
<1>1. FolderInv => Folder!Confined
  BY DEF FolderInv
<1> QED
  BY <1>1, FolderInvariant, PTL

\* A row of the panel leads to the file or the folder it names, while the folder
\* is as it was when it was listed, whatever was answered in between (listing
\* and resolving the same name): if names have no backslashes and outer blanks.
THEOREM RowsAlwaysLead == ASSUME Folder!PlainNames PROVE MCSpec => []ClickLeads
<1>1. FolderInv => ClickLeads
  BY FolderMeans
<1> QED
  BY <1>1, FolderInvariant, PTL

\* Besides, a Python node shows neither dotfiles nor symlinks, and a page and a
\* Python node show and serve the same of a folder that holds neither: for any
\* tree of such names.
THEOREM FolderAlwaysServed == ASSUME Folder!PlainNames PROVE MCSpec => []FolderServed
<1>1. FolderInv => FolderServed
  BY FolderMeans
<1> QED
  BY <1>1, FolderInvariant, PTL
=============================================================================

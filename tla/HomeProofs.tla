----------------------------- MODULE HomeProofs -----------------------------
(***************************************************************************)
(* That the keyring keeps what the user was told, and that one kill leaves *)
(* an identity, for any contacts, identities and bound.                    *)
(***************************************************************************)
EXTENDS Home, TLAPS

Runs == {"ready", "opened", "written", "restoring", "exporting"}

\* What makes ToldIsKept inductive: a running peer agrees with the user too, a
\* save has taken back what it is about to change, and writes what it
\* holds; an import that broke off leaves more in memory than in the file.
KeyringInv ==
  /\ ToldIsKept
  /\ pc \in Runs => yes \subseteq mem /\ no \cap mem = {}
  /\ pc \in {"opened", "written"} => yes \cap cmd = {} /\ no \cap cmd = {}
  /\ pc \in Runs \ {"opened", "written"} => ring \subseteq mem
  /\ pc = "written" => tmp = mem

\* Each part of Change: in memory, and in what the user was told.
LEMMA ChangeKeeps ==
  ASSUME NEW ids, NEW m, KeyringInv, Change(ids, m),
         mem \ ids = m \ ids
  PROVE  KeyringInv'
BY SMT DEF KeyringInv, ToldIsKept, Change, Runs, identity, export

LEMMA KeyringInit == Init => KeyringInv
BY DEF Init, KeyringInv, ToldIsKept, Runs

\* No step of any program, and no kill, breaks it.
LEMMA KeyringStep == KeyringInv /\ [Next]_vars => KeyringInv'
<1> SUFFICES ASSUME KeyringInv, [Next]_vars PROVE KeyringInv'
  OBVIOUS
<1> USE DEF KeyringInv, ToldIsKept, Runs
<1>1. ASSUME Mint \/ Minted \/ Start PROVE KeyringInv'
  BY <1>1 DEF Mint, Minted, Start, LoadKeyring, keyring, identity, export
<1>2. ASSUME NEW i \in Ids, Accept(i) PROVE KeyringInv'
  BY <1>2, ChangeKeeps, mem \ {i} = (mem \cup {i}) \ {i} DEF Accept
<1>3. ASSUME NEW i \in Ids, Remove(i) PROVE KeyringInv'
  <2>1. CASE i \in mem /\ Change({i}, mem \ {i})
    BY <2>1, ChangeKeeps, mem \ {i} = (mem \ {i}) \ {i}
  <2>2. CASE pc = "ready" /\ i \notin mem /\ ~Change({i}, mem \ {i})
    BY <1>3, <2>2 DEF Remove, identity, export
  <2> QED
    BY <1>3, <2>1, <2>2 DEF Remove
<1>4. ASSUME NEW S \in SUBSET Ids, ImportContacts(S) PROVE KeyringInv'
  BY <1>4, ChangeKeeps, mem \ S = (mem \cup S) \ S DEF ImportContacts
<1>5. ASSUME NEW S \in SUBSET Ids, ImportRaises(S) PROVE KeyringInv'
  BY <1>5 DEF ImportRaises, identity, export
<1>6. CASE Write
  BY <1>6 DEF Write, identity, export
<1>7. CASE Replace
  BY <1>7 DEF Replace, identity, export
<1>8. ASSUME ImportKey \/ ExportKey \/ ImportedKey \/ ExportedKey PROVE KeyringInv'
  BY <1>8 DEF ImportKey, Whole, ExportKey, ImportedKey, ExportedKey, keyring, export
<1>9. ASSUME XRead \/ XOpen \/ XWrite \/ XAborts \/ XKilled PROVE KeyringInv'
  BY <1>9 DEF XRead, XOpen, XWrite, XAborts, XKilled, keyring, identity
<1>10. ASSUME Quit \/ Killed PROVE KeyringInv'
  BY <1>10 DEF Quit, Killed, Forgets, export
<1>11. CASE UNCHANGED vars
  BY <1>11 DEF vars, keyring
<1> QED
  BY <1>1, <1>2, <1>3, <1>4, <1>5, <1>6, <1>7, <1>8, <1>9, <1>10, <1>11 DEF Next, Commands

\* What Keyring says it has done stays done: no kill between the open, the
\* write and the replace of _save, and no import that breaks off, loses a
\* contact the user was told is trusted or brings back one he removed.
THEOREM KeyringKeeps == Spec => []ToldIsKept
<1>1. KeyringInv => ToldIsKept
  BY DEF KeyringInv
<1> QED
  BY <1>1, KeyringInit, KeyringStep, PTL DEF Spec

-----------------------------------------------------------------------------
(* The identity. *)

\* An emptied file nobody is about to write.
IdLost == idfile = Empty /\ pc \notin {"minting", "restoring"}
BackupLost == backup = Empty /\ pc # "exporting" /\ xp # "writing"

\* Each loss costs a kill, and a peer that was once started has an identity file
\* or a backup it was restoring.
IdentityInv ==
  /\ crashes \in Nat
  /\ {idfile, backup} \subseteq Seeds \cup {None, Empty}
  /\ pc # "off" => me \in Seeds
  /\ pc = "restoring" => seed \in Seeds
  /\ xp # "off" => xseed \in Seeds
  /\ IdLost \/ BackupLost => crashes >= 1
  /\ IdLost /\ BackupLost => crashes >= 2
  /\ idfile = None \/ pc = "minting" => promised = None
  /\ idfile = Empty /\ promised # None => backup # None

LEMMA IdentityInit == Init => IdentityInv
BY HomeAssumption DEF Init, IdentityInv, IdLost, BackupLost

LEMMA IdentityStep == IdentityInv /\ [Next]_vars => IdentityInv'
<1> SUFFICES ASSUME IdentityInv, [Next]_vars PROVE IdentityInv'
  OBVIOUS
<1> USE HomeAssumption DEF IdentityInv, IdLost, BackupLost, identity, export
<1>1. CASE Mint
  BY <1>1 DEF Mint
<1>2. CASE Minted
  BY <1>2 DEF Minted
<1>3. CASE Start
  BY <1>3 DEF Start
<1>4. ASSUME NEW ids, NEW m, Change(ids, m) PROVE IdentityInv'
  BY <1>4 DEF Change
<1>5. ASSUME NEW i \in Ids, Accept(i) \/ Remove(i) PROVE IdentityInv'
  BY <1>4, <1>5 DEF Accept, Remove
<1>6. ASSUME NEW S \in SUBSET Ids, ImportContacts(S) \/ ImportRaises(S) PROVE IdentityInv'
  BY <1>4, <1>6 DEF ImportContacts, ImportRaises
<1>7. CASE Write \/ Replace
  BY <1>7 DEF Write, Replace
<1>8. CASE ImportKey
  BY <1>8 DEF ImportKey, Whole
<1>9. CASE ImportedKey
  BY <1>9 DEF ImportedKey
<1>10. CASE ExportKey
  BY <1>10 DEF ExportKey
<1>11. CASE ExportedKey
  BY <1>11 DEF ExportedKey
<1>12. CASE XRead
  BY <1>12 DEF XRead
<1>13. CASE XOpen
  BY <1>13 DEF XOpen
<1>14. CASE XWrite
  BY <1>14 DEF XWrite
<1>15. CASE XAborts
  BY <1>15 DEF XAborts
<1>16. CASE Quit
  BY <1>16 DEF Quit, Forgets
<1>17. CASE Killed
  BY <1>17 DEF Killed, Forgets
<1>18. CASE XKilled
  BY <1>18 DEF XKilled
<1>19. CASE UNCHANGED vars
  BY <1>19 DEF vars
<1> QED
  BY <1>1, <1>2, <1>3, <1>5, <1>6, <1>7, <1>8, <1>9, <1>10, <1>11, <1>12, <1>13,
     <1>14, <1>15, <1>16, <1>17, <1>18, <1>19 DEF Next, Commands

\* A peer that was started once does not lose its last identity to one kill of
\* either program, whatever /import, /export and export_key.py were doing.
THEOREM OneKillLeavesACopy == Spec => []ACopyRemains
<1>1. IdentityInv => ACopyRemains
  BY HomeAssumption DEF IdentityInv, IdLost, BackupLost, ACopyRemains, Whole
<1> QED
  BY <1>1, IdentityInit, IdentityStep, PTL DEF Spec

-----------------------------------------------------------------------------
(* Types. *)

\* The steps write a seed where the type wants one.
TypeInv == HomeTypeOK /\ IdentityInv

LEMMA TypeStep == TypeInv /\ [Next]_vars => HomeTypeOK'
<1> SUFFICES ASSUME TypeInv, [Next]_vars PROVE HomeTypeOK'
  OBVIOUS
<1> USE HomeAssumption DEF TypeInv, IdentityInv, HomeTypeOK, identity, export
<1>1. ASSUME Mint \/ Minted \/ Start PROVE HomeTypeOK'
  BY <1>1 DEF Mint, Minted, Start, LoadKeyring, keyring
<1>2. ASSUME NEW ids \in SUBSET Ids, NEW m \in SUBSET Ids, Change(ids, m) PROVE HomeTypeOK'
  BY <1>2 DEF Change
<1>3. ASSUME NEW i \in Ids, Accept(i) \/ Remove(i) PROVE HomeTypeOK'
  BY <1>2, <1>3 DEF Accept, Remove
<1>4. ASSUME NEW S \in SUBSET Ids, ImportContacts(S) \/ ImportRaises(S) PROVE HomeTypeOK'
  BY <1>2, <1>4 DEF ImportContacts, ImportRaises
<1>5. ASSUME Write \/ Replace PROVE HomeTypeOK'
  BY <1>5 DEF Write, Replace
<1>6. ASSUME ImportKey \/ ExportKey \/ ImportedKey \/ ExportedKey PROVE HomeTypeOK'
  BY <1>6 DEF ImportKey, Whole, ExportKey, ImportedKey, ExportedKey, keyring
<1>7. ASSUME XRead \/ XOpen \/ XWrite \/ XAborts PROVE HomeTypeOK'
  BY <1>7 DEF XRead, XOpen, XWrite, XAborts, keyring
<1>8. ASSUME Quit \/ Killed \/ XKilled PROVE HomeTypeOK'
  BY <1>8 DEF Quit, Killed, XKilled, Forgets, keyring
<1>9. CASE UNCHANGED vars
  BY <1>9 DEF vars, keyring
<1> QED
  BY <1>1, <1>3, <1>4, <1>5, <1>6, <1>7, <1>8, <1>9 DEF Next, Commands

\* No file and no program ever holds half an identity where a whole one is used.
THEOREM HomeTypes == Spec => []HomeTypeOK
<1>1. Init => TypeInv
  BY HomeAssumption, IdentityInit DEF Init, TypeInv, HomeTypeOK
<1>2. TypeInv /\ [Next]_vars => TypeInv'
  BY TypeStep, IdentityStep DEF TypeInv
<1>3. TypeInv => HomeTypeOK
  BY DEF TypeInv
<1> QED
  BY <1>1, <1>2, <1>3, PTL DEF Spec
-----------------------------------------------------------------------------
(* The identity of the next start. *)

\* A whole identity file is the one that was promised.
PromiseInv == IdentityInv /\ (idfile \in Seeds /\ promised # None => idfile = promised)

LEMMA PromiseStep ==
  PromiseInv /\ [Next]_vars =>
    /\ PromiseInv'
    /\ pc' = "ready" /\ pc \in {"off", "minting"} /\ promised # None => me' = promised /\ promised' = promised
<1> SUFFICES ASSUME PromiseInv, [Next]_vars
             PROVE  /\ idfile' \in Seeds /\ promised' # None => idfile' = promised'
                    /\ pc' = "ready" /\ pc \in {"off", "minting"} /\ promised # None
                         => me' = promised /\ promised' = promised
  BY IdentityStep DEF PromiseInv
<1> USE HomeAssumption DEF PromiseInv, identity
<1>1. CASE Mint \/ Minted \/ Start
  BY <1>1 DEF Mint, Minted, Start, IdentityInv
<1>2. ASSUME Write \/ Replace \/ \E ids, m : Change(ids, m)
      PROVE  UNCHANGED <<idfile, promised>> /\ pc \notin {"off", "minting"}
  BY <1>2 DEF Write, Replace, Change
<1>3. ASSUME NEW i \in Ids, Accept(i) \/ Remove(i)
      PROVE  UNCHANGED <<idfile, promised>> /\ pc \notin {"off", "minting"}
  BY <1>2, <1>3 DEF Accept, Remove
<1>4. ASSUME NEW S \in SUBSET Ids, ImportContacts(S) \/ ImportRaises(S)
      PROVE  UNCHANGED <<idfile, promised>> /\ pc \notin {"off", "minting"}
  BY <1>2, <1>4 DEF ImportContacts, ImportRaises
<1>5. CASE ImportKey \/ ImportedKey
  BY <1>5 DEF ImportKey, ImportedKey
<1>6. ASSUME ExportKey \/ ExportedKey
      PROVE  UNCHANGED <<idfile, promised>> /\ pc \notin {"off", "minting"}
  BY <1>6 DEF ExportKey, ExportedKey
<1>7. ASSUME XRead \/ XOpen \/ XWrite \/ XAborts \/ XKilled
      PROVE  UNCHANGED <<idfile, promised, pc>>
  BY <1>7 DEF XRead, XOpen, XWrite, XAborts, XKilled
<1>8. ASSUME Quit \/ Killed PROVE UNCHANGED <<idfile, promised>> /\ pc' = "off"
  BY <1>8 DEF Quit, Killed, Forgets
<1>9. CASE UNCHANGED vars
  BY <1>9 DEF vars
<1> QED
  BY <1>1, <1>2, <1>3, <1>4, <1>5, <1>6, <1>7, <1>8, <1>9 DEF Next, Commands

\* Whenever and however often the peer is killed, a run that starts has the
\* identity of the run before it, or the one /import said it had restored.
THEOREM SameAtNextStart == Spec => SameIdentity
<1>1. Init => PromiseInv
  BY IdentityInit, HomeAssumption DEF Init, PromiseInv
<1> QED
  BY <1>1, PromiseStep, PTL DEF Spec, SameIdentity
=============================================================================

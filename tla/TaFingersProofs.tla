-------------------------- MODULE TaFingersProofs --------------------------
(***************************************************************************)
(* Proofs about the fingers of the session, for any finite set of fingers, *)
(* any set of databases and any number of slots.                           *)
(***************************************************************************)
EXTENDS TaFingers, FiniteSetTheorems, TLAPS

(* Before the table is read nothing is loaded.                              *)
Unread == ~inited => ram = {} /\ loaded = {} /\ halfGone = {}

(* A finger that the store could not load is not in the library: only such  *)
(* fingers lose their slot to a new one.                                    *)
FailingApart == failing \cap loaded = {}

(* A finger that is in a table has been enrolled.                           *)
Known ==
  \A f \in Finger : owner[f] = {} =>
    f \notin ram /\ f \notin strayed /\ \A d \in Db : f \notin table[d]

MatchSeen == pre # NoFinger => pre \in seen

StoreInv == LoadedInTable /\ DbsApart /\ Unread /\ FailingApart /\ Known
IInv == TypeOK /\ StoreInv /\ MatchSeen

-----------------------------------------------------------------------------
LEMMA SlotsFinite ==
  ASSUME NEW S \in Slots
  PROVE  S \subseteq Finger /\ IsFiniteSet(S)
         /\ Cardinality(S) \in Nat /\ Cardinality(S) <= TPL_MAX_ST
<1>1. S \in SUBSET Finger /\ Cardinality(S) <= TPL_MAX_ST
  BY DEF Slots
<1>2. IsFiniteSet(S)
  BY <1>1, FingerAssumption, FS_Subset
<1> QED
  BY <1>1, <1>2, FS_CardinalityType

LEMMA EmptySlots == {} \in Slots
  BY FS_EmptySet, SlotAssumption DEF Slots

(* Fewer fingers need no more slots.                                        *)
LEMMA FewerSlots ==
  ASSUME NEW S \in Slots, NEW T \in SUBSET S
  PROVE  T \in Slots
<1>1. IsFiniteSet(T) /\ Cardinality(T) <= Cardinality(S)
  BY SlotsFinite, FS_Subset
<1>2. Cardinality(T) \in Nat
  BY <1>1, FS_CardinalityType
<1> QED
  BY <1>1, <1>2, SlotsFinite, SlotAssumption DEF Slots

(* A new finger in a free slot, or in that of another, fits.                *)
LEMMA NewFits ==
  ASSUME NEW S \in Slots, NEW f \in Finger, NEW out,
         \/ Cardinality(S) < TPL_MAX_ST /\ out = {}
         \/ \E e \in S : out = {e}
  PROVE  (S \ out) \cup {f} \in Slots
<1>1. S \subseteq Finger /\ IsFiniteSet(S) /\ Cardinality(S) \in Nat
      /\ Cardinality(S) <= TPL_MAX_ST /\ TPL_MAX_ST \in Nat
  BY SlotsFinite, SlotAssumption
<1>2. CASE Cardinality(S) < TPL_MAX_ST /\ out = {}
  <2>1. Cardinality(S \cup {f}) = IF f \in S THEN Cardinality(S) ELSE Cardinality(S) + 1
    BY <1>1, FS_AddElement
  <2>2. Cardinality(S \cup {f}) <= TPL_MAX_ST
    BY <1>1, <1>2, <2>1
  <2>3. (S \ out) \cup {f} = S \cup {f}
    BY <1>2
  <2> QED
    BY <1>1, <2>2, <2>3 DEF Slots
<1>3. CASE \E e \in S : out = {e}
  <2>1. PICK e \in S : out = {e}
    BY <1>3
  <2> DEFINE R == S \ {e}
  <2>2. IsFiniteSet(R) /\ Cardinality(R) = Cardinality(S) - 1
    BY <1>1, FS_RemoveElement
  <2>3. Cardinality(R \cup {f}) = IF f \in R THEN Cardinality(R) ELSE Cardinality(R) + 1
    BY <2>2, FS_AddElement
  <2>4. Cardinality(R \cup {f}) <= TPL_MAX_ST
    BY <1>1, <2>2, <2>3
  <2>5. (S \ out) \cup {f} = R \cup {f} /\ R \cup {f} \subseteq Finger
    BY <1>1, <2>1
  <2> QED
    BY <2>4, <2>5 DEF Slots
<1> QED
  BY <1>2, <1>3

(* What the first call on the store finds, whether or not the table was     *)
(* read before.                                                             *)
LEMMA RamFacts ==
  ASSUME IInv
  PROVE  /\ Ram \in Slots /\ Ram \subseteq Finger /\ ram \subseteq Ram
         /\ \A fl \in Failing : fl \subseteq Ram /\ fl \cap loaded = {}
         /\ \A f \in Ram \ strayed : owner[f] = {path}
         /\ \A f \in Ram : owner[f] # {}
<1> USE DEF IInv, StoreInv, TypeOK
<1>1. Ram \in Slots /\ ram \subseteq Ram
  BY DEF Ram, Unread
<1>2. Ram \subseteq Finger
  BY <1>1, SlotsFinite
<1>3. \A fl \in Failing : fl \subseteq Ram /\ fl \cap loaded = {}
  BY DEF Failing, Ram, Unread, FailingApart
<1>4. \A f \in Ram \ strayed : owner[f] = {path}
  BY DEF Ram, DbsApart
<1>5. \A f \in Ram : owner[f] # {}
  BY <1>2 DEF Ram, Known
<1> QED
  BY <1>1, <1>2, <1>3, <1>4, <1>5

LEMMA WrittenType ==
  ASSUME table \in [Db -> Slots], NEW d \in Db, NEW t \in Slots, Written(d, t)
  PROVE  table' \in [Db -> Slots]
  BY DEF Written

-----------------------------------------------------------------------------
(* The initial state satisfies the invariant.                               *)
LEMMA InitInv == Init => IInv
<1> SUFFICES ASSUME Init PROVE IInv
  OBVIOUS
<1>1. TypeOK
  BY EmptySlots, DbAssumption DEF Init, TypeOK
<1> QED
  BY <1>1 DEF Init, IInv, StoreInv, LoadedInTable, DbsApart, Unread, FailingApart,
              Known, MatchSeen

(* An update of the store leaves it as it must be.                          *)
LEMMA UpdateKeeps ==
  ASSUME IInv, UpdateTpl \/ NoUpdate, UNCHANGED <<loaded, path, auxVars>>
  PROVE  /\ StoreInv'
         /\ inited' \in BOOLEAN /\ ram' \in Slots /\ failing' \subseteq ram'
         /\ table' \in [Db -> Slots]
         /\ updated' \in Finger \cup {NoFinger}
<1> USE DEF auxVars
<1>1. CASE UpdateTpl
  <2>1. /\ inited' = TRUE /\ ram' = Ram /\ failing' \in Failing /\ Written(path, Ram)
        /\ pre \in Finger
    BY <1>1 DEF UpdateTpl, IInv, TypeOK
  <2>2. ram' \in Slots /\ failing' \subseteq ram' /\ table' \in [Db -> Slots]
    BY <2>1, RamFacts, WrittenType DEF IInv, TypeOK
  <2>3. LoadedInTable' /\ Unread' /\ FailingApart'
    BY <2>1, RamFacts DEF IInv, StoreInv, LoadedInTable, Unread, FailingApart
  <2>4. \A d \in Db : table'[d] = table[d] \/ (d = path /\ table'[d] = Ram)
    BY <2>1 DEF Written, IInv, TypeOK
  <2>5. DbsApart' /\ Known'
    BY <2>1, <2>4, RamFacts DEF IInv, StoreInv, DbsApart, Known
  <2>6. updated' \in Finger \cup {NoFinger}
    BY <1>1, <2>1 DEF UpdateTpl
  <2> QED
    BY <2>1, <2>2, <2>3, <2>5, <2>6 DEF StoreInv
<1>2. CASE NoUpdate
  BY <1>2 DEF NoUpdate, Quiet, IInv, TypeOK, StoreInv, LoadedInTable, DbsApart,
                        Unread, FailingApart, Known
<1> QED
  BY <1>1, <1>2

(* So does an enrolment that ends: the finger that loses its slot is one    *)
(* that the library does not hold.                                          *)
LEMMA EnrollEndKeeps ==
  ASSUME IInv, NEW status \in BOOLEAN, EnrollEnd(status)
  PROVE  TypeOK' /\ StoreInv'
<1> USE DEF authVars
<1>1. CASE UNCHANGED <<inited, ram, failing, table, owner, loaded>>
  BY <1>1 DEF EnrollEnd, Quiet, IInv, TypeOK, StoreInv, LoadedInTable, DbsApart,
                        Unread, FailingApart, Known
<1>2. CASE \E f \in Finger, r \in Outcome :
             /\ ready /\ Save(f, r)
             /\ loaded' = IF status /\ r = "stored" THEN loaded \cup {f} ELSE loaded
  <2>1. PICK f \in Finger, r \in Outcome :
          /\ Save(f, r)
          /\ loaded' = IF status /\ r = "stored" THEN loaded \cup {f} ELSE loaded
    BY <1>2
  <2>2. PICK fl \in Failing : \E o \in Evicted(fl) :
          /\ ram' = (Ram \ o) \cup (IF r = "empty" THEN {} ELSE {f})
          /\ failing' = fl \ o
    BY <2>1 DEF Save
  <2>3. PICK out \in Evicted(fl) :
          /\ ram' = (Ram \ out) \cup (IF r = "empty" THEN {} ELSE {f})
          /\ failing' = fl \ out
    BY <2>2
  <2>4. /\ fl \subseteq Ram /\ fl \cap loaded = {}
        /\ \/ Cardinality(Ram) < TPL_MAX_ST /\ out = {}
           \/ \E e \in fl : out = {e}
    BY <2>3, RamFacts DEF Evicted
  <2>5. /\ owner[f] = {} /\ inited' = TRUE
        /\ table' = [table EXCEPT ![path] = ram'] \/ Written(path, ram')
        /\ owner' = IF r = "empty" THEN owner ELSE [owner EXCEPT ![f] = {path}]
        /\ UNCHANGED <<pre, covered, seen, path, halfGone, strayed>> /\ ready' = FALSE
    BY <2>1, <1>2 DEF Save, EnrollEnd
  <2>6. ram' \in Slots
    <3>1. CASE r = "empty"
      BY <3>1, <2>3, RamFacts, FewerSlots
    <3>2. CASE r # "empty"
      BY <3>2, <2>3, <2>4, RamFacts, NewFits
    <3> QED
      BY <3>1, <3>2
  <2>7. f \notin Ram /\ f \notin strayed
    BY <2>5, RamFacts DEF IInv, StoreInv, Known
  <2>8. TypeOK'
    <3>1. table' \in [Db -> Slots]
      BY <2>5, <2>6 DEF Written, IInv, TypeOK
    <3>2. owner' \in [Finger -> SUBSET Db]
      BY <2>5 DEF IInv, TypeOK
    <3>3. loaded' \subseteq Finger /\ failing' \subseteq ram'
      BY <2>1, <2>3, <2>4 DEF IInv, TypeOK
    <3>4. updated' \in Finger \cup {NoFinger}
      BY DEF EnrollEnd, Quiet
    <3> QED
      BY <2>5, <2>6, <3>1, <3>2, <3>3, <3>4 DEF IInv, TypeOK
  <2>9. LoadedInTable'
    <3>1. loaded \subseteq Ram \cup halfGone
      BY RamFacts DEF IInv, StoreInv, LoadedInTable
    <3>2. loaded \cap out = {}
      BY <2>4
    <3>3. loaded' \subseteq loaded \cup (IF r = "empty" THEN {} ELSE {f})
      BY <2>1
    <3> QED
      BY <2>3, <2>5, <3>1, <3>2, <3>3 DEF LoadedInTable
  <2>10. FailingApart'
    BY <2>1, <2>3, <2>4, <2>7 DEF FailingApart
  <2>11. /\ \A g \in ram' : g \in Ram \/ g = f
         /\ f \in ram' => owner' = [owner EXCEPT ![f] = {path}]
         /\ \A d \in Db : table'[d] = table[d] \/ (d = path /\ table'[d] = ram')
    BY <2>3, <2>5, <2>7 DEF Written, IInv, TypeOK
  <2>12. /\ \A g \in Finger \ {f} : owner'[g] = owner[g]
         /\ f \in ram' => owner'[f] = {path}
         /\ \A d \in Db : f \notin table[d]
    BY <2>5, <2>11 DEF IInv, TypeOK, StoreInv, Known
  <2>13. ram' \subseteq Finger /\ \A d \in Db : table[d] \subseteq Finger
    BY <2>6, SlotsFinite DEF IInv, TypeOK
  <2>14. DbsApart'
    <3>1. \A g \in ram' \ strayed : owner'[g] = {path}
      BY <2>11, <2>12, <2>13, RamFacts
    <3>2. \A d \in Db : \A g \in table[d] \ strayed : owner'[g] = {d}
      BY <2>12, <2>13 DEF IInv, StoreInv, DbsApart
    <3> QED
      BY <2>5, <2>11, <3>1, <3>2 DEF DbsApart
  <2>15. Known'
    <3>1. \A g \in ram' : owner'[g] # {}
      BY <2>11, <2>12, <2>13, RamFacts
    <3>2. \A d \in Db : \A g \in table[d] : owner'[g] # {}
      BY <2>12, <2>13 DEF IInv, StoreInv, Known
    <3>3. \A g \in Finger : owner'[g] = {} => g \notin strayed
      BY <2>7, <2>12 DEF IInv, StoreInv, Known
    <3> QED
      BY <2>5, <2>11, <3>1, <3>2, <3>3 DEF Known
  <2>16. Unread'
    BY <2>5 DEF Unread
  <2> QED
    BY <2>8, <2>9, <2>10, <2>14, <2>15, <2>16 DEF StoreInv
<1> QED
  BY <1>1, <1>2 DEF EnrollEnd

(* So does LOAD_USER_DB, which swaps both sets of fingers, or neither.      *)
LEMMA LoadUserDbKeeps ==
  ASSUME IInv, NEW d \in Db, LoadUserDb(d)
  PROVE  TypeOK' /\ StoreInv'
<1> USE DEF authVars
<1>1. CASE NoBuffer(d)
  <2>1. /\ path' = d
        /\ strayed' = IF inited /\ d # path THEN strayed \cup ram ELSE strayed
        /\ UNCHANGED <<pre, covered, seen, ready, owner, inited, ram, failing, table,
                       loaded, halfGone>>
        /\ updated' = NoFinger
    BY <1>1 DEF LoadUserDb, NoBuffer, Quiet
  <2>2. ram \subseteq Finger
    BY SlotsFinite DEF IInv, TypeOK
  <2>3. TypeOK'
    BY <2>1, <2>2 DEF IInv, TypeOK
  <2>4. DbsApart'
    BY <2>1 DEF IInv, StoreInv, DbsApart, Unread
  <2>5. Known'
    BY <2>1 DEF IInv, StoreInv, Known
  <2> QED
    BY <2>1, <2>3, <2>4, <2>5 DEF IInv, StoreInv, LoadedInTable, Unread, FailingApart
<1>2. CASE ~NoBuffer(d)
  <2>1. PICK good \in SUBSET table[d] : \E g \in SUBSET (table[d] \ good) :
          /\ inited' = TRUE
          /\ ram' = table[d] \ g
          /\ failing' = ram' \ good
          /\ Written(d, ram')
          /\ loaded' \in SUBSET good
          /\ halfGone' = {}
          /\ UNCHANGED strayed
    BY <1>2 DEF LoadUserDb
  <2>2. PICK gone \in SUBSET (table[d] \ good) :
          /\ inited' = TRUE
          /\ ram' = table[d] \ gone
          /\ failing' = ram' \ good
          /\ Written(d, ram')
          /\ loaded' \in SUBSET good
          /\ halfGone' = {}
          /\ UNCHANGED strayed
    BY <2>1
  <2>3. /\ path' = d /\ UNCHANGED <<pre, covered, seen, ready, owner>>
        /\ updated' = NoFinger
    BY DEF LoadUserDb, Quiet
  <2>4. table[d] \in Slots /\ table[d] \subseteq Finger
    BY SlotsFinite DEF IInv, TypeOK
  <2>5. ram' \in Slots
    BY <2>2, <2>4, FewerSlots
  <2>6. table' \in [Db -> Slots]
    BY <2>2, <2>5, WrittenType DEF IInv, TypeOK
  <2>7. TypeOK'
    BY <2>2, <2>3, <2>4, <2>5, <2>6 DEF IInv, TypeOK
  <2>8. \A e \in Db : table'[e] \subseteq table[e]
    BY <2>2 DEF Written, IInv, TypeOK
  <2>9. DbsApart' /\ Known'
    BY <2>2, <2>3, <2>8 DEF IInv, StoreInv, DbsApart, Known
  <2>10. LoadedInTable' /\ Unread' /\ FailingApart'
    BY <2>2 DEF LoadedInTable, Unread, FailingApart
  <2> QED
    BY <2>7, <2>9, <2>10 DEF StoreInv
<1> QED
  BY <1>1, <1>2

(* So does FP_REMOVE.                                                       *)
LEMMA RemoveKeeps ==
  ASSUME IInv, NEW f \in Finger, Remove(f)
  PROVE  TypeOK' /\ StoreInv'
<1> USE DEF authVars
<1>1. PICK fl \in Failing :
       \/ /\ ram' = Ram \ {f} /\ failing' = fl \ {f}
          /\ table' = [table EXCEPT ![path] = IF f \in Ram THEN ram' ELSE @]
          /\ loaded' = loaded \ {f}
          /\ UNCHANGED halfGone
       \/ /\ ram' = Ram \ {f} /\ failing' = fl \ {f}
          /\ Written(path, ram')
          /\ halfGone' = halfGone \cup {f}
          /\ UNCHANGED loaded
       \/ /\ ram' = Ram /\ failing' = fl
          /\ UNCHANGED <<table, loaded, halfGone>>
  BY DEF Remove
<1>2. /\ inited' = TRUE
      /\ UNCHANGED <<pre, covered, seen, ready, path, owner, strayed>>
      /\ updated' = NoFinger
  BY DEF Remove, Quiet
<1>3. fl \subseteq Ram /\ fl \cap loaded = {}
  BY RamFacts
<1>4. ram' \subseteq Ram /\ ram' \in Slots
  BY <1>1, RamFacts, FewerSlots
<1>5. \A d \in Db : table'[d] = table[d] \/ (d = path /\ table'[d] = ram')
  BY <1>1 DEF Written, IInv, TypeOK
<1>6. table' \in [Db -> Slots]
  BY <1>1, <1>4 DEF Written, IInv, TypeOK
<1>7. loaded' \subseteq Finger /\ halfGone' \subseteq Finger /\ failing' \subseteq ram'
  BY <1>1, <1>3 DEF IInv, TypeOK
<1>8. TypeOK'
  BY <1>2, <1>4, <1>6, <1>7 DEF IInv, TypeOK
<1>9. LoadedInTable'
  BY <1>1, RamFacts DEF IInv, StoreInv, LoadedInTable
<1>10. FailingApart' /\ Unread'
  BY <1>1, <1>2, <1>3 DEF FailingApart, Unread
<1>11. DbsApart'
  BY <1>2, <1>4, <1>5, RamFacts DEF IInv, StoreInv, DbsApart
<1>12. Known'
  BY <1>2, <1>4, <1>5, RamFacts DEF IInv, StoreInv, Known
<1> QED
  BY <1>8, <1>9, <1>10, <1>11, <1>12 DEF StoreInv

-----------------------------------------------------------------------------
(* Every step keeps the invariant.                                          *)
LEMMA StepInv == IInv /\ [Next]_vars => IInv'
<1> SUFFICES ASSUME IInv, [Next]_vars PROVE IInv'
  OBVIOUS
<1> USE DEF authVars, storeVars, auxVars
<1>1. ASSUME UNCHANGED <<storeVars, auxVars>>, loaded' \subseteq loaded
      PROVE  StoreInv'
  BY <1>1 DEF IInv, StoreInv, LoadedInTable, DbsApart, Unread, FailingApart, Known
<1>2. ASSUME Quiet
      PROVE  updated' \in Finger \cup {NoFinger}
  BY <1>2 DEF Quiet
<1>3. CASE InitCmd
  BY <1>1, <1>2, <1>3 DEF InitCmd, IInv, TypeOK, MatchSeen
<1>4. CASE Init2
  BY <1>1, <1>2, <1>4 DEF Init2, IInv, TypeOK, MatchSeen
<1>5. CASE Deinit
  BY <1>1, <1>2, <1>5 DEF Deinit, IInv, TypeOK, MatchSeen
<1>6. CASE Capture
  BY <1>1, <1>2, <1>6 DEF Capture, IInv, TypeOK, MatchSeen
<1>7. CASE AuthStart
  BY <1>1, <1>2, <1>7 DEF AuthStart, IInv, TypeOK, MatchSeen
<1>8. CASE AuthEnd
  <2>1. UpdateTpl \/ NoUpdate
    BY <1>8 DEF AuthEnd
  <2>2. /\ pre' = NoFinger /\ seen' = {}
        /\ UNCHANGED <<covered, ready, loaded, path, auxVars>>
    BY <1>8 DEF AuthEnd
  <2> QED
    BY <2>1, <2>2, UpdateKeeps DEF IInv, TypeOK, MatchSeen
<1>9. CASE EnrollStart
  BY <1>1, <1>2, <1>9 DEF EnrollStart, IInv, TypeOK, MatchSeen
<1>10. CASE EnrollStep
  BY <1>1, <1>2, <1>10 DEF EnrollStep, IInv, TypeOK, MatchSeen
<1>11. ASSUME NEW f \in Finger, AuthStep(f) PROVE IInv'
  BY <1>1, <1>2, <1>11 DEF AuthStep, IInv, TypeOK, MatchSeen
<1>12. ASSUME NEW f \in Finger, Remove(f) PROVE IInv'
  BY <1>12, RemoveKeeps DEF Remove, IInv, MatchSeen
<1>13. ASSUME NEW status \in BOOLEAN, EnrollEnd(status) PROVE IInv'
  BY <1>13, EnrollEndKeeps DEF EnrollEnd, IInv, MatchSeen
<1>14. ASSUME NEW d \in Db, LoadUserDb(d) PROVE IInv'
  BY <1>14, LoadUserDbKeeps DEF LoadUserDb, IInv, MatchSeen
<1>15. CASE Restart
  <2>1. TypeOK'
    BY <1>2, <1>15, EmptySlots, DbAssumption DEF Restart, IInv, TypeOK
  <2> QED
    BY <1>15, <2>1 DEF Restart, IInv, StoreInv, LoadedInTable, DbsApart, Unread,
                       FailingApart, Known, MatchSeen
<1>16. CASE UNCHANGED vars
  BY <1>16 DEF vars, IInv, TypeOK, StoreInv, LoadedInTable, DbsApart, Unread,
               FailingApart, Known, MatchSeen
<1> QED
  BY <1>3, <1>4, <1>5, <1>6, <1>7, <1>8, <1>9, <1>10, <1>11, <1>12, <1>13, <1>14,
     <1>15, <1>16 DEF Next

LEMMA AlwaysInv == Spec => []IInv
  BY InitInv, StepInv, PTL DEF Spec

-----------------------------------------------------------------------------
(* Whatever commands succeed or fail in whatever order, every variable of   *)
(* the session has its type and no table outgrows the store's slots.        *)
THEOREM TypeCorrect == Spec => []TypeOK
  BY AlwaysInv, PTL DEF IInv

(* The library matches no finger that fp_storage.c does not have, but for   *)
(* one whose removal failed half way.                                       *)
THEOREM LoadedAlwaysInTable == Spec => []LoadedInTable
  BY AlwaysInv, PTL DEF IInv, StoreInv

(* Fingers of different users' databases stay apart, but for those that a   *)
(* LOAD_USER_DB without a buffer left behind.                               *)
THEOREM DbsStayApart == Spec => []DbsApart
  BY AlwaysInv, PTL DEF IInv, StoreInv

(* AUTH_END writes only the template of a finger matched since AUTH_START.  *)
THEOREM OnlyMatchedUpdated == Spec => UpdatedMatched
<1>1. ASSUME IInv, [Next]_vars
      PROVE  [updated' # NoFinger
                => updated' \in seen
                   /\ (updated' \in strayed \/ owner[updated'] = {path})]_vars
  <2> SUFFICES ASSUME ~UNCHANGED vars, updated' # NoFinger
               PROVE  updated' \in seen
                      /\ (updated' \in strayed \/ owner[updated'] = {path})
    OBVIOUS
  <2>1. ~Quiet
    BY DEF Quiet
  <2>2. AuthEnd
    BY <1>1, <2>1 DEF Next, InitCmd, Init2, Deinit, Capture, AuthStart, EnrollStart,
                      EnrollStep, AuthStep, EnrollEnd, Remove, LoadUserDb, Restart
  <2>3. UpdateTpl /\ updated' = pre
    BY <2>1, <2>2 DEF AuthEnd, UpdateTpl, NoUpdate
  <2> QED
    BY <1>1, <2>3, RamFacts DEF UpdateTpl, IInv, MatchSeen
<1> QED
  BY <1>1, AlwaysInv, PTL DEF Spec, UpdatedMatched
=============================================================================

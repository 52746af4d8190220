----------------------------- MODULE TaFingers -----------------------------
(***************************************************************************)
(* The fingers of the trusted app's session, fp_impl.c: those the store    *)
(* has on file, those in its RAM table and those the matching library      *)
(* holds, which the commands of a client change together.  The app has one *)
(* thread and serves one command at a time, so a command is one step.      *)
(*                                                                         *)
(* A command that lacks the device, the configuration or a buffer returns  *)
(* early and changes nothing here: no step (TaSession has these).  The     *)
(* store's calls are in short, by what they leave in RAM and on file and   *)
(* what they return, the half failed call included; TplStorage has their   *)
(* file operations.  The matching library is external: which finger        *)
(* matches and when a template is finished is its free choice, and it      *)
(* matches and updates only fingers that it holds.                         *)
(***************************************************************************)
EXTENDS Naturals, FiniteSets

CONSTANTS
  Finger, NoFinger,
  Db,          \* paths of databases, one per user
  DefaultDb,   \* the path before a client sets one
  TPL_MAX_ST   \* slots of the store

ASSUME FingerAssumption == NoFinger \notin Finger /\ IsFiniteSet(Finger)
ASSUME DbAssumption == DefaultDb \in Db
ASSUME SlotAssumption == TPL_MAX_ST \in Nat \ {0}

VARIABLES
  pre,       \* m_pre_auth_fid (m_per_auth_fid_valid: it is a finger)
  covered,   \* s_denoise_result >= 0
  ready,     \* the library has the template of a finished enrolment
  loaded,    \* fingers the library holds
  path,      \* m_str_tpl_path
  inited,    \* init_once of the RAM table
  ram,       \* fingers in the RAM table
  failing,   \* those of them whose failcount is not 0
  table,     \* fingers in the table on file of each database
  (* auxiliary *)
  owner,     \* the database each finger was enrolled in, if it was
  seen,      \* fingers matched since AUTH_START or AUTH_END
  halfGone,  \* fingers whose removal failed half way since they were loaded
  strayed,   \* fingers in the RAM table when a LOAD_USER_DB left it behind
  updated    \* the finger AUTH_END updated, if that was the last command

authVars  == <<pre, covered, seen>>
storeVars == <<path, inited, ram, failing, table>>
auxVars   == <<owner, halfGone, strayed>>
vars == <<authVars, ready, loaded, storeVars, auxVars, updated>>

Quiet == updated' = NoFinger

Init ==
  /\ pre = NoFinger /\ covered = TRUE /\ seen = {}
  /\ ready = FALSE /\ loaded = {}
  /\ path = DefaultDb /\ inited = FALSE /\ ram = {} /\ failing = {}
  /\ table = [d \in Db |-> {}]
  /\ owner = [f \in Finger |-> {}]
  /\ halfGone = {} /\ strayed = {}
  /\ updated = NoFinger

-----------------------------------------------------------------------------
(* The RAM table and its failcounts, which the first call on the store      *)
(* reads from the file.                                                     *)
Ram == IF inited THEN ram ELSE table[path]
Failing == IF inited THEN {failing} ELSE SUBSET table[path]

(* The table in RAM is written to its file, or that fails.                  *)
Written(d, t) == table' \in {table, [table EXCEPT ![d] = t]}

(* INIT forgets the last match.                                             *)
InitCmd ==
  /\ pre' = NoFinger
  /\ Quiet
  /\ UNCHANGED <<covered, seen, ready, loaded, storeVars, auxVars>>

(* INIT2 starts the library, DEINIT releases it.  What it held it may or    *)
(* may not keep when it is started again.                                   *)
Init2 ==
  /\ loaded' \in {loaded, {}}
  /\ Quiet
  /\ UNCHANGED <<authVars, ready, storeVars, auxVars>>

Deinit ==
  /\ loaded' = {} /\ ready' = FALSE
  /\ Quiet
  /\ UNCHANGED <<authVars, storeVars, auxVars>>

(* CI_SHOT, CAPTURE_IMG, TEST_SPEED.                                        *)
Capture ==
  /\ covered' \in BOOLEAN
  /\ Quiet
  /\ UNCHANGED <<pre, seen, ready, loaded, storeVars, auxVars>>

-----------------------------------------------------------------------------
(* AUTH_START.                                                              *)
AuthStart_KeepsMatch ==
  /\ seen' = {}
  /\ Quiet
  /\ UNCHANGED <<pre, covered, ready, loaded, storeVars, auxVars>>

AuthStart ==
  /\ pre' = NoFinger /\ seen' = {}
  /\ Quiet
  /\ UNCHANGED <<covered, ready, loaded, storeVars, auxVars>>

(* AUTH_STEP that ends in a match; without one nothing changes here.        *)
AuthStep(f) ==
  /\ f \in loaded
  /\ pre' = f /\ seen' = seen \cup {f}
  /\ Quiet
  /\ UNCHANGED <<covered, ready, loaded, storeVars, auxVars>>

(* AUTH_END: a finger that matched, the last image being covered, is        *)
(* updated in the library, if that thinks it worth it, and then in the      *)
(* store, which knows the finger or refuses.                                *)
UpdateTpl ==
  /\ pre # NoFinger /\ covered
  /\ pre \in loaded /\ pre \in Ram
  /\ inited' = TRUE /\ ram' = Ram /\ failing' \in Failing
  /\ Written(path, Ram)
  /\ updated' = pre

NoUpdate ==
  /\ Quiet
  /\ UNCHANGED <<inited, ram, failing, table>>

AuthEnd ==
  /\ UpdateTpl \/ NoUpdate
  /\ pre' = NoFinger /\ seen' = {}
  /\ UNCHANGED <<covered, ready, loaded, path, auxVars>>

-----------------------------------------------------------------------------
(* ENROLL_START, after which the library may still have the template of an  *)
(* enrolment that was not ended; ENROLL_STEP, of which the last finishes    *)
(* the template.                                                            *)
EnrollStart ==
  /\ ready' \in {ready, FALSE}
  /\ Quiet
  /\ UNCHANGED <<authVars, loaded, storeVars, auxVars>>

EnrollStep ==
  /\ ready' = TRUE
  /\ Quiet
  /\ UNCHANGED <<authVars, loaded, storeVars, auxVars>>

(* fp_storage_save: a new finger takes a free slot, or the one of a finger  *)
(* that could not be loaded.                                                *)
Evicted_None(fl) == {{}}
Evicted_Any(fl) ==
  IF Cardinality(Ram) < TPL_MAX_ST THEN {{}} ELSE {{e} : e \in Ram}

Evicted(fl) ==
  IF Cardinality(Ram) < TPL_MAX_ST THEN {{}} ELSE {{e} : e \in fl}

(* It stores the finger f, or fails with f in RAM and perhaps on file, or   *)
(* fails with the slot empty.                                               *)
Outcome == {"stored", "half", "empty"}

Save(f, r) ==
  /\ owner[f] = {}
  /\ \E fl \in Failing : \E out \in Evicted(fl) :
       /\ ram' = (Ram \ out) \cup (IF r = "empty" THEN {} ELSE {f})
       /\ failing' = fl \ out
  /\ inited' = TRUE
  /\ IF r = "stored" THEN table' = [table EXCEPT ![path] = ram'] ELSE Written(path, ram')
  /\ owner' = IF r = "empty" THEN owner ELSE [owner EXCEPT ![f] = {path}]

(* ENROLL_END.  The template is stored if the library has one; the client's *)
(* status is looked at afterwards, when the library is told whether to keep *)
(* the finger.                                                              *)
EnrollEnd(status) ==
  /\ \/ \E f \in Finger, r \in Outcome :
          /\ ready /\ Save(f, r)
          /\ loaded' = IF status /\ r = "stored" THEN loaded \cup {f} ELSE loaded
     \/ UNCHANGED <<inited, ram, failing, table, owner, loaded>>
  /\ ready' = FALSE
  /\ Quiet
  /\ UNCHANGED <<authVars, path, halfGone, strayed>>

-----------------------------------------------------------------------------
(* LOAD_USER_DB sets the path, needs a buffer, and reads the database anew. *)
(* Of its fingers the store loads some, good, and drops some, gone, that it *)
(* has failed to load too often; a template that cannot be decrypted is not *)
(* given to the library.                                                    *)
NoBuffer(d) ==
  /\ strayed' = IF inited /\ d # path THEN strayed \cup ram ELSE strayed
  /\ UNCHANGED <<inited, ram, failing, table, loaded, halfGone>>

LoadUserDb_KeepsRam(d) ==
  /\ path' = d
  /\ \/ /\ inited' = TRUE
        /\ ram' = Ram /\ failing' \in Failing
        /\ loaded' \in SUBSET Ram
        /\ halfGone' = {}
        /\ UNCHANGED <<table, strayed>>
     \/ NoBuffer(d)
  /\ Quiet
  /\ UNCHANGED <<authVars, ready, owner>>

LoadUserDb(d) ==
  /\ path' = d
  /\ \/ \E good \in SUBSET table[d] : \E gone \in SUBSET (table[d] \ good) :
          /\ inited' = TRUE
          /\ ram' = table[d] \ gone
          /\ failing' = ram' \ good
          /\ Written(d, ram')
          /\ loaded' \in SUBSET good
          /\ halfGone' = {}
          /\ UNCHANGED strayed
     \/ NoBuffer(d)
  /\ Quiet
  /\ UNCHANGED <<authVars, ready, owner>>

(* FP_REMOVE: the library forgets what the store has removed.  When only    *)
(* the second write of the table fails, the RAM table has forgotten the     *)
(* finger but the call fails and the library keeps it.                      *)
Remove(f) ==
  /\ inited' = TRUE
  /\ \E fl \in Failing :
       \/ /\ ram' = Ram \ {f} /\ failing' = fl \ {f}
          /\ table' = [table EXCEPT ![path] = IF f \in Ram THEN ram' ELSE @]
          /\ loaded' = loaded \ {f}
          /\ UNCHANGED halfGone
       \/ /\ f \in Ram
          /\ ram' = Ram \ {f} /\ failing' = fl \ {f}
          /\ Written(path, ram')
          /\ halfGone' = halfGone \cup {f}
          /\ UNCHANGED loaded
       \/ /\ f \in Ram
          /\ ram' = Ram /\ failing' = fl
          /\ UNCHANGED <<table, loaded, halfGone>>
  /\ Quiet
  /\ UNCHANGED <<authVars, ready, path, owner, strayed>>

(* The app starts anew: power was lost or the app died.                     *)
Restart ==
  /\ pre' = NoFinger /\ covered' = TRUE /\ seen' = {}
  /\ ready' = FALSE /\ loaded' = {}
  /\ path' = DefaultDb /\ inited' = FALSE /\ ram' = {} /\ failing' = {}
  /\ halfGone' = {}
  /\ Quiet
  /\ UNCHANGED <<table, owner, strayed>>

Next ==
  \/ InitCmd \/ Init2 \/ Deinit \/ Capture
  \/ AuthStart \/ AuthEnd \/ EnrollStart \/ EnrollStep
  \/ \E f \in Finger : AuthStep(f) \/ Remove(f)
  \/ \E status \in BOOLEAN : EnrollEnd(status)
  \/ \E d \in Db : LoadUserDb(d)
  \/ Restart

Spec == Init /\ [][Next]_vars

-----------------------------------------------------------------------------
(* Every variable has its type, and no table has more fingers than slots.   *)
Slots == {S \in SUBSET Finger : Cardinality(S) <= TPL_MAX_ST}

TypeOK ==
  /\ pre \in Finger \cup {NoFinger} /\ covered \in BOOLEAN /\ ready \in BOOLEAN
  /\ loaded \subseteq Finger
  /\ path \in Db /\ inited \in BOOLEAN
  /\ ram \in Slots /\ failing \subseteq ram
  /\ table \in [Db -> Slots]
  /\ owner \in [Finger -> SUBSET Db]
  /\ seen \subseteq Finger /\ halfGone \subseteq Finger /\ strayed \subseteq Finger
  /\ updated \in Finger \cup {NoFinger}

(* fp_impl.c keeps two sets of fingers in step, the store's and the         *)
(* library's: whatever commands succeed or fail in whatever order, the      *)
(* library can match no finger that the store does not have, unless a       *)
(* removal of it failed half way.  In particular a full store gives the     *)
(* slot of no finger away that the library still matches.                   *)
LoadedInTable == loaded \subseteq (ram \cup halfGone)

(* Databases of different users stay apart: a table, on file or in RAM,     *)
(* lists only fingers that were enrolled in its database, and those that a  *)
(* LOAD_USER_DB without a buffer left in RAM when it changed the path.      *)
DbsApart ==
  /\ \A d \in Db : \A f \in table[d] \ strayed : owner[f] = {d}
  /\ \A f \in ram \ strayed : owner[f] = {path}

(* AUTH_END writes no template but that of a finger which was matched since *)
(* the last AUTH_START or AUTH_END and was enrolled in the database in use, *)
(* whatever was loaded, removed or brought down in between.                 *)
UpdatedMatched ==
  [][updated' # NoFinger
       => updated' \in seen /\ (updated' \in strayed \/ owner[updated'] = {path})]_vars
=============================================================================

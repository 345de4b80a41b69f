-------------------------- MODULE ModelStoreProofs --------------------------
(***************************************************************************)
(* What ModelStore keeps for any requests, names, contents and threads.    *)
(***************************************************************************)
EXTENDS ModelStore, TLAPS

USE NamesAssumption, NothingAssumption

-----------------------------------------------------------------------------
(* The inductive invariant: whoever is past the lock of the loader has it,  *)
(* what it reads was not loaded when it looked again and, as nobody else    *)
(* could load it since, is not now; and what was answered is what is kept.  *)

HasLock == \A r \in Requests : at[r] \in {"inside", "reading", "read"} => loading = r

NotYetKept == \A r \in Requests : at[r] \in {"reading", "read"} => Kept(r) = Nothing

AnsweredAsKept ==
    \A r \in Requests : at[r] = "answered" /\ model[r] # Nothing => Kept(r) = model[r]

Inv == TypeOK /\ HasLock /\ NotYetKept /\ AnsweredAsKept

LEMMA InvInit == Init => Inv
BY DEF Init, Inv, TypeOK, HasLock, NotYetKept, AnsweredAsKept, Places

LEMMA InvStep == Inv /\ [Next]_vars => Inv'
<1> SUFFICES ASSUME Inv, [Next]_vars PROVE Inv'
  OBVIOUS
<1> USE DEF Inv, TypeOK, HasLock, NotYetKept, AnsweredAsKept, Places, Goes, Kept
<1>1. ASSUME NEW r \in Requests, Take(r) PROVE Inv'
  BY <1>1 DEF Take
<1>2. ASSUME NEW r \in Requests, Look(r) PROVE Inv'
  <2>1. CASE Answer(r, Kept(r))
    BY <1>2, <2>1 DEF Look, Answer
  <2>2. CASE Goes(r, "cold") /\ UNCHANGED model
    BY <1>2, <2>2 DEF Look
  <2> QED BY <1>2, <2>1, <2>2 DEF Look
<1>3. ASSUME NEW r \in Requests, FindFile(r) PROVE Inv'
  <2>1. CASE Answer(r, Nothing)
    BY <1>3, <2>1 DEF FindFile, Answer
  <2>2. CASE Goes(r, "waiting") /\ UNCHANGED model
    BY <1>3, <2>2 DEF FindFile
  <2> QED BY <1>3, <2>1, <2>2 DEF FindFile
<1>4. ASSUME NEW r \in Requests, Enter(r) PROVE Inv'
  BY <1>4 DEF Enter, LoaderFree
<1>5. ASSUME NEW r \in Requests, LookAgain(r) PROVE Inv'
  <2>1. CASE LoadedMeanwhile(r)
    BY <1>5, <2>1 DEF LookAgain, LoadedMeanwhile, Answer, Release
  <2>2. CASE ~LoadedMeanwhile(r)
    BY <1>5, <2>2 DEF LookAgain, LoadedMeanwhile
  <2> QED BY <2>1, <2>2
<1>6. ASSUME NEW r \in Requests, Read(r) PROVE Inv'
  BY <1>6 DEF Read, OfFile
<1>7. ASSUME NEW r \in Requests, ReadFails(r) PROVE Inv'
  BY <1>7 DEF ReadFails, Answer, Release
<1>8. ASSUME NEW r \in Requests, Keep(r) PROVE Inv'
  <2>1. Kept(r) = Nothing /\ loading = r
    BY <1>8 DEF Keep
  <2>2. \A n \in Names : n # NameOf[r] => loaded'[n] = loaded[n]
    BY <1>8 DEF Keep
  <2>3. loaded'[NameOf[r]] = model[r]
    BY <1>8 DEF Keep
  <2>4. TypeOK'
    BY <1>8 DEF Keep, Release
  <2>5. HasLock'
    BY <1>8, <2>1 DEF Keep, Release
  <2>6. NotYetKept'
    BY <1>8, <2>1 DEF Keep
  <2>7. AnsweredAsKept'
    <3> SUFFICES ASSUME NEW o \in Requests, at'[o] = "answered", model'[o] # Nothing
                 PROVE  loaded'[NameOf[o]] = model'[o]
      OBVIOUS
    <3>1. CASE o = r
      BY <1>8, <2>3, <3>1 DEF Keep
    <3>2. CASE o # r
      <4>1. Kept(o) = model[o] /\ model'[o] = model[o] /\ Kept(o) # Nothing
        BY <1>8, <3>2 DEF Keep
      <4> QED BY <2>1, <2>2, <4>1
    <3> QED BY <3>1, <3>2
  <2> QED BY <2>4, <2>5, <2>6, <2>7
<1>9. ASSUME NEW n \in Names, WriteFile(n) PROVE Inv'
  BY <1>9 DEF WriteFile
<1>10. CASE UNCHANGED vars
  BY <1>10 DEF vars
<1>11. ASSUME NEW r \in Requests, Handle(r) PROVE Inv'
  BY <1>1, <1>2, <1>3, <1>4, <1>5, <1>6, <1>7, <1>8, <1>11, Zenon DEF Handle
<1> HIDE DEF Inv
<1> QED BY <1>9, <1>10, <1>11, Zenon DEF Next

LEMMA InvCorrect == Spec => []Inv
BY InvInit, InvStep, PTL DEF Spec

\* Every variable keeps to its values.
THEOREM StoreTypeCorrect == Spec => []TypeOK
<1>1. Inv => TypeOK
  BY DEF Inv
<1> QED BY <1>1, InvCorrect, PTL

\* No model is read that is loaded already or being read by another request.
THEOREM ModelIsReadOnce == Spec => []NobodyPaysTwice
<1>1. Inv => NobodyPaysTwice
  BY DEF Inv, NobodyPaysTwice, NotYetKept, HasLock
<1> QED BY <1>1, InvCorrect, PTL

\* All answers to requests for one name are the same model.
THEOREM AnswersAgree == Spec => []OneModelPerName
<1>1. Inv => OneModelPerName
  BY DEF Inv, OneModelPerName, AnsweredAsKept, Kept
<1> QED BY <1>1, InvCorrect, PTL

\* A model that was loaded stays loaded as it is.
THEOREM LoadedIsKept == Spec => LoadedForGood
<1>1. Inv /\ [Next]_vars =>
        [\A n \in Names : loaded[n] # Nothing => loaded'[n] = loaded[n]]_vars
  <2> SUFFICES ASSUME Inv, Next, NEW n \in Names, loaded[n] # Nothing
               PROVE  loaded'[n] = loaded[n]
    OBVIOUS
  <2>1. ASSUME NEW r \in Requests, Keep(r) PROVE loaded'[n] = loaded[n]
    BY <2>1 DEF Keep, Inv, TypeOK, NotYetKept, Kept
  <2>2. ASSUME NEW r \in Requests, Handle(r), ~Keep(r) PROVE loaded'[n] = loaded[n]
    BY <2>2 DEF Handle, Take, Look, FindFile, Enter, LookAgain, Read, ReadFails
  <2>3. ASSUME NEW m \in Names, WriteFile(m) PROVE loaded'[n] = loaded[n]
    BY <2>3 DEF WriteFile
  <2> QED BY <2>1, <2>2, <2>3 DEF Next
<1> QED BY <1>1, InvCorrect, PTL DEF Spec, LoadedForGood
=============================================================================

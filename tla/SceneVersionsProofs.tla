------------------------- MODULE SceneVersionsProofs -------------------------
(***************************************************************************)
(* What SceneVersions keeps for any conversions, requests to delete a      *)
(* version, viewers and readers, as long as every upload of the scene      *)
(* waits for the reply to the one before and the mark can be written: a    *)
(* number names one model and what landed stays, until somebody deletes    *)
(* the scene as a whole.  And for any uploads, whether or not they wait: a *)
(* deleted scene stays deleted where its directory was removed undisturbed.*)
(***************************************************************************)
EXTENDS SceneVersions, WellFoundedInduction, FiniteSetTheorems, TLAPS

\* What the theorems on numbers ask of clients and of the disk.
InTurn == Patience # "none" /\ ~MarkMayFail

-----------------------------------------------------------------------------
(* The highest number there is.                                             *)

LEMMA HighestIsOne ==
  ASSUME NEW held, held \subseteq Numbers, held # {}
  PROVE  Max(held) \in held /\ \A n \in held : n <= Max(held)
<1> DEFINE below == {m \in Nat : \E n \in held : m = MaxNumber - n}
<1>1. below \subseteq Nat /\ below # {}
  <2>1. PICK n \in held : TRUE
    OBVIOUS
  <2>2. MaxNumber - n \in Nat
    BY MaxNumberAssumption DEF Numbers
  <2>3. MaxNumber - n \in below
    BY <2>2
  <2> QED
    BY <2>3
<1>2. \E m \in below : \A k \in below : ~(<<k, m>> \in OpToRel(<, Nat))
  <2> HIDE DEF below
  <2> QED
    BY <1>1, NatLessThanWellFounded, WFMin
<1>3. PICK m \in below : \A k \in below : ~(<<k, m>> \in OpToRel(<, Nat))
  BY <1>2
<1>4. ASSUME NEW k \in below PROVE m <= k
  <2>1. ~(k < m)
    BY <1>1, <1>3 DEF OpToRel
  <2> HIDE DEF below
  <2> QED
    BY <1>1, <2>1
<1>5. PICK x \in held : m = MaxNumber - x
  OBVIOUS
<1>6. ASSUME NEW n \in held PROVE x >= n
  <2>1. MaxNumber - n \in below
    BY MaxNumberAssumption DEF Numbers
  <2>2. MaxNumber - x <= MaxNumber - n
    BY <1>4, <1>5, <2>1
  <2> QED
    BY <1>5, <2>2, MaxNumberAssumption DEF Numbers
<1>7. Max(held) \in held /\ \A n \in held : Max(held) >= n
  BY <1>6 DEF Max
<1> QED
  BY <1>7, MaxNumberAssumption DEF Numbers

LEMMA LowestIsOne ==
  ASSUME NEW held, held \subseteq Numbers, held # {}
  PROVE  Min(held) \in held
<1>0. held \subseteq Nat
  BY MaxNumberAssumption DEF Numbers
<1>1. \E m \in held : \A k \in held : ~(<<k, m>> \in OpToRel(<, Nat))
  BY <1>0, NatLessThanWellFounded, WFMin
<1>2. PICK m \in held : \A k \in held : ~(<<k, m>> \in OpToRel(<, Nat))
  BY <1>1
<1>3. ASSUME NEW k \in held PROVE m <= k
  <2>1. ~(k < m)
    BY <1>0, <1>2 DEF OpToRel
  <2> QED
    BY <1>0, <2>1
<1> QED
  BY <1>3 DEF Min

LEMMA HigherOfTwo ==
  ASSUME NEW a \in Nat, NEW b \in Nat
  PROVE  Max({a, b}) \in {a, b} /\ Max({a, b}) >= a /\ Max({a, b}) >= b
<1>1. \E x \in {a, b} : \A y \in {a, b} : x >= y
  OBVIOUS
<1> QED
  BY <1>1 DEF Max

LEMMA NewestFacts ==
  /\ Newest \in 0..MaxNumber
  /\ Held # {} => Newest \in Held
  /\ Held = {} => Newest = 0
<1>1. Held \subseteq Numbers
  BY DEF Held
<1>2. CASE Held = {}
  BY <1>2, MaxNumberAssumption DEF Newest
<1>3. CASE Held # {}
  <2>1. Newest \in Held
    BY <1>1, <1>3, HighestIsOne DEF Newest
  <2>2. Newest \in Numbers
    BY <1>1, <2>1
  <2> QED
    BY <1>3, <2>1, <2>2, MaxNumberAssumption DEF Numbers
<1> QED
  BY <1>2, <1>3

LEMMA AbsentFacts == Absent \in File /\ Absent.by = NoOne /\ ~Absent.whole
BY DEF Absent, File

-----------------------------------------------------------------------------
(* Types.                                                                   *)

Places == Numbering \union Over \union
            {"idle", "queued", "converting", "writing", "written", "landed"}

ConvState == [at : Places, present : 0..MaxNumber, number : 0..MaxNumber]

LEMMA TypeInit == Init => TypeOK
<1> SUFFICES ASSUME Init PROVE TypeOK
  OBVIOUS
<1>1. 0 \in 0..MaxNumber
  BY MaxNumberAssumption
<1>2. [by |-> Legacy, whole |-> TRUE] \in File
  BY DEF File, Models
<1>3. flat \in File /\ file \in [Numbers -> File]
  BY <1>2, AbsentFacts DEF Init
<1>4. conv \in [Convs -> ConvState]
  BY <1>1 DEF Init, ConvState, Places
<1>5. /\ vdel \in [VersionDeletes -> [at : {"idle", "listed", "removed", "ended"},
                                     number : 0..MaxNumber, flat : BOOLEAN, newest : BOOLEAN]]
      /\ sdel \in [SceneDeletes -> [at : {"idle", "removing", "erasing", "emptied",
                                         "removed", "ended"},
                                   left : SUBSET (0..MaxNumber), flat : BOOLEAN]]
      /\ viewer \in [Viewers -> {"idle", "checked", "ended"}]
      /\ reader \in [Readers -> [number : 0..MaxNumber, got : Models \union {NoOne}]]
  BY <1>1 DEF Init
<1> QED
  BY <1>1, <1>3, <1>4, <1>5 DEF Init, TypeOK, ConvState, Places

\* What each step of a conversion writes is a value of the right kind.
LEMMA ConvFacts ==
  ASSUME TypeOK, NEW c \in Convs
  PROVE  /\ conv \in [Convs -> ConvState]
         /\ conv[c].number \in 0..MaxNumber /\ conv[c].present \in 0..MaxNumber
         /\ mark \in 0..MaxNumber
         /\ [by |-> c, whole |-> FALSE] \in File
BY DEF TypeOK, ConvState, Places, File, Models

LEMMA NumbersAreNaturals ==
  ASSUME TypeOK
  PROVE  /\ mark \in Nat
         /\ \A c \in Convs : conv[c].number \in Nat /\ conv[c].present \in Nat
<1>1. \A n \in 0..MaxNumber : n \in Nat
  BY MaxNumberAssumption
<1>2. mark \in Nat
  BY <1>1 DEF TypeOK
<1>3. ASSUME NEW c \in Convs PROVE conv[c].number \in Nat /\ conv[c].present \in Nat
  BY <1>1, ConvFacts
<1> QED
  BY <1>2, <1>3

LEMMA ConversionKeepsType ==
  ASSUME TypeOK, NEW c \in Convs, Conversion(c) PROVE TypeOK'
<1>1. /\ conv \in [Convs -> ConvState]
      /\ conv[c].number \in 0..MaxNumber /\ conv[c].present \in 0..MaxNumber
      /\ mark \in 0..MaxNumber /\ [by |-> c, whole |-> FALSE] \in File
  BY ConvFacts
<1>2. \A s \in ConvState, at \in Places, n \in 0..MaxNumber :
        /\ [s EXCEPT !.at = at] \in ConvState
        /\ [s EXCEPT !.at = at, !.present = n] \in ConvState
        /\ [at |-> at, present |-> 0, number |-> n] \in ConvState
  <2>1. 0 \in 0..MaxNumber
    BY MaxNumberAssumption
  <2> QED
    BY <2>1 DEF ConvState
<1>3. conv' \in [Convs -> ConvState]
  <2>1. CASE ListPresent(c)
    <3>1. conv' = [conv EXCEPT ![c] = [conv[c] EXCEPT !.at = "listed", !.present = Newest]]
      BY <2>1 DEF ListPresent
    <3>2. [conv[c] EXCEPT !.at = "listed", !.present = Newest] \in ConvState
      BY <1>1, <1>2, NewestFacts DEF Places, Numbering
    <3> QED
      BY <1>1, <3>1, <3>2
  <2>2. CASE ReadMark(c)
    <3>1. conv' = [conv EXCEPT ![c] = [at |-> "numbered", present |-> 0, number |-> NextNumber(c)]]
      BY <2>2 DEF ReadMark
    <3>2. NextNumber(c) \in 0..MaxNumber
      <4>1. conv[c].present \in Nat /\ mark \in Nat /\ NextNumber(c) <= MaxNumber
        BY <1>1, <2>2, MaxNumberAssumption DEF ReadMark
      <4>2. Max({conv[c].present, mark}) \in Nat
        BY <4>1, HigherOfTwo
      <4> QED
        BY <4>1, <4>2, MaxNumberAssumption DEF NextNumber
    <3>3. [at |-> "numbered", present |-> 0, number |-> NextNumber(c)] \in ConvState
      BY <1>1, <1>2, <3>2 DEF Places, Numbering
    <3> QED
      BY <1>1, <3>1, <3>3
  <2>3. CASE \E at \in Places : Goes(c, at)
    <3>1. PICK at \in Places : conv' = [conv EXCEPT ![c] = [conv[c] EXCEPT !.at = at]]
      BY <2>3 DEF Goes
    <3>2. [conv[c] EXCEPT !.at = at] \in ConvState
      BY <1>1, <1>2, MaxNumberAssumption
    <3> QED
      BY <1>1, <3>1, <3>2
  <2> QED
    BY <2>1, <2>2, <2>3 DEF Conversion, MakeDirectory, EmptyMark, WriteMark, MarkFails, Begin,
       Skip, Create, Complete, Land, ForgetPreview, Fail, Cancel, Places, Numbering, Over
<1>4. file' \in [Numbers -> File]
  <2>1. CASE Create(c)
    BY <1>1, <2>1 DEF Create, TypeOK
  <2>2. CASE Complete(c)
    <3>1. \A f \in File : [f EXCEPT !.whole = @ \/ f.by = c] \in File
      BY DEF File
    <3>2. file' = [file EXCEPT ![conv[c].number] =
                     [file[conv[c].number] EXCEPT !.whole = @ \/ file[conv[c].number].by = c]]
      BY <2>2 DEF Complete
    <3> QED
      BY <3>1, <3>2 DEF TypeOK
  <2>3. CASE Cancel(c)
    BY <2>3, AbsentFacts DEF Cancel, Cleaned, TypeOK
  <2>4. CASE UNCHANGED file
    BY <2>4 DEF TypeOK
  <2> QED
    BY <2>1, <2>2, <2>3, <2>4 DEF Conversion, MakeDirectory, ListPresent, ReadMark, EmptyMark,
       WriteMark, MarkFails, Begin, Skip, Land, ForgetPreview, Fail, disk
<1>5. mark' \in 0..MaxNumber /\ dir' \in BOOLEAN /\ flat' \in File
  <2>1. 0 \in 0..MaxNumber /\ Marked(c) \in 0..MaxNumber
    BY <1>1, MaxNumberAssumption DEF Marked
  <2>2. mark' \in {mark, 0, Marked(c)} /\ dir' \in {dir, TRUE} /\ flat' = flat
    BY DEF Conversion, MakeDirectory, ListPresent, ReadMark, EmptyMark, WriteMark, MarkFails,
       Begin, Skip, Create, Complete, Land, ForgetPreview, Fail, Cancel, disk, last
  <2> QED
    BY <1>1, <2>1, <2>2 DEF TypeOK
<1>6. /\ preview' \in {preview, FALSE} /\ running' \in {running, c, NoOne} /\ deleted' = deleted
      /\ marked' \in {marked, TRUE}
      /\ handles' = handles \/ handles' = handles \union {c} \/ handles' = handles \ {c}
      /\ fresh' = fresh \/ fresh' = [s \in SceneDeletes |-> fresh[s] \union {c}]
      /\ disturbed' = disturbed \/ Disturbs
      /\ UNCHANGED <<vdel, sdel, viewer, reader>>
  BY DEF Conversion, MakeDirectory, ListPresent, ReadMark, EmptyMark, WriteMark, MarkFails, Begin, Skip,
     Create, Complete, Land, ForgetPreview, Fail, Cancel, disk, last, history
<1>7. /\ preview' \in BOOLEAN /\ running' \in Convs \union {NoOne}
      /\ deleted' \subseteq Models /\ fresh' \in [SceneDeletes -> SUBSET Convs]
      /\ marked' \in BOOLEAN /\ handles' \subseteq Convs /\ disturbed' \subseteq SceneDeletes
  <2>1. preview' \in BOOLEAN /\ running' \in Convs \union {NoOne} /\ deleted' \subseteq Models
    BY <1>6 DEF TypeOK
  <2>2. fresh' \in [SceneDeletes -> SUBSET Convs]
    BY <1>6 DEF TypeOK
  <2>3. marked' \in BOOLEAN /\ handles' \subseteq Convs
    BY <1>6 DEF TypeOK
  <2>4. disturbed' \subseteq SceneDeletes
    BY <1>6 DEF TypeOK, Disturbs
  <2> QED
    BY <2>1, <2>2, <2>3, <2>4
<1> QED
  BY <1>3, <1>4, <1>5, <1>6, <1>7 DEF TypeOK, ConvState, Places

\* A request that is about to remove a version removes one there can be.
DeletesANumber == \A d \in VersionDeletes : vdel[d].at = "listed" => vdel[d].number \in Numbers

\* So does one that removes the versions it listed.
RemovesNumbers == \A s \in SceneDeletes : sdel[s].at = "removing" => sdel[s].left \subseteq Numbers

TypeInv == TypeOK /\ DeletesANumber /\ RemovesNumbers

VersionDeleting(d) ==
    (\E n \in Numbers : ListVersions(d, n)) \/ RemoveVersion(d) \/ ForgetRemoved(d)

SceneDeleting(s) ==
    \/ ListScene(s) \/ RemoveNext(s) \/ ListDirectory(s) \/ Erase(s) \/ RemoveDirectory(s)
    \/ VersionFails(s) \/ DirectoryFails(s) \/ RemovePreview(s)

Viewing(w) == CheckScene(w) \/ StorePreview(w)

Deleter == [at : {"idle", "listed", "removed", "ended"}, number : 0..MaxNumber,
            flat : BOOLEAN, newest : BOOLEAN]

LEMMA VersionDeleteKeepsType ==
  ASSUME TypeInv, NEW d \in VersionDeletes, VersionDeleting(d) PROVE TypeInv'
<1> USE DEF TypeInv
<1>1. vdel \in [VersionDeletes -> Deleter]
  BY DEF TypeOK, Deleter
<1>5. sdel' = sdel => RemovesNumbers'
  BY DEF RemovesNumbers
<1>2. ASSUME NEW n \in Numbers, ListVersions(d, n) PROVE TypeInv'
  <2>1. n \in 0..MaxNumber /\ AtFlat(n) \in BOOLEAN /\ (n = Newest) \in BOOLEAN
    BY MaxNumberAssumption DEF Numbers, AtFlat
  <2>2. vdel' = [vdel EXCEPT ![d] = [at |-> "listed", number |-> n,
                                     flat |-> AtFlat(n), newest |-> n = Newest]]
    BY <1>2 DEF ListVersions
  <2>3. vdel' \in [VersionDeletes -> Deleter] /\ DeletesANumber'
    BY <1>1, <2>1, <2>2 DEF Deleter, DeletesANumber
  <2> QED
    BY <1>2, <1>5, <2>3 DEF ListVersions, TypeOK, Deleter, disk, last, history
<1>3. CASE RemoveVersion(d)
  <2>1. flat' \in File /\ file' \in [Numbers -> File]
    BY <1>3, AbsentFacts DEF RemoveVersion, Unlink, TypeOK
  <2>2. {There(vdel[d].number, vdel[d].flat).by} \ {NoOne} \subseteq Models
    BY <1>3 DEF RemoveVersion, There, TypeOK, DeletesANumber, File
  <2> DEFINE ended(to) == [at |-> to, number |-> 0, flat |-> FALSE, newest |-> FALSE]
  <2>3. PICK to \in {"removed", "ended"} : vdel' = [vdel EXCEPT ![d] = ended(to)]
    BY <1>3 DEF RemoveVersion
  <2>4. ended(to) \in Deleter /\ ended(to).at # "listed"
    BY MaxNumberAssumption DEF Deleter
  <2> HIDE DEF ended
  <2>5. vdel' \in [VersionDeletes -> Deleter] /\ DeletesANumber'
    BY <1>1, <2>3, <2>4 DEF DeletesANumber
  <2> QED
    BY <1>3, <1>5, <2>1, <2>2, <2>5 DEF RemoveVersion, TypeOK, Deleter, last
<1>4. CASE ForgetRemoved(d)
  <2>1. vdel' = [vdel EXCEPT ![d] = [vdel[d] EXCEPT !.at = "ended"]]
    BY <1>4 DEF ForgetRemoved
  <2>2. [vdel[d] EXCEPT !.at = "ended"] \in Deleter /\ [vdel[d] EXCEPT !.at = "ended"].at = "ended"
    BY <1>1 DEF Deleter
  <2>3. vdel' \in [VersionDeletes -> Deleter] /\ DeletesANumber'
    BY <1>1, <2>1, <2>2 DEF DeletesANumber
  <2> QED
    BY <1>4, <1>5, <2>3 DEF ForgetRemoved, TypeOK, Deleter, disk, last, history
<1> QED
  BY <1>2, <1>3, <1>4 DEF VersionDeleting

SceneDeleter == [at : {"idle", "removing", "erasing", "emptied", "removed", "ended"},
                 left : SUBSET (0..MaxNumber), flat : BOOLEAN]

LEMMA EntriesFacts == ASSUME TypeOK PROVE Entries \subseteq 0..MaxNumber
BY MaxNumberAssumption DEF Entries, Numbers

\* What a request to delete the scene does to its own place.
LEMMA SceneDeleteMoves ==
  ASSUME TypeInv, NEW s \in SceneDeletes, SceneDeleting(s)
  PROVE  /\ sdel' \in [SceneDeletes -> SceneDeleter]
         /\ \A o \in SceneDeletes \ {s} : sdel'[o] = sdel[o]
         /\ sdel'[s].at # "idle"
         /\ sdel'[s].at = "removing" => sdel'[s].left \subseteq Numbers
         /\ ListScene(s) => sdel'[s] = [at |-> "removing", left |-> Held, flat |-> AtFlat(1)]
         /\ ListDirectory(s) => sdel'[s] = [at |-> "erasing", left |-> Entries, flat |-> FALSE]
         /\ \A e \in Entries : sdel' = [sdel EXCEPT ![s].left = @ \ {e}] =>
               sdel'[s].left = sdel[s].left \ {e} /\ sdel'[s].at = sdel[s].at
         /\ RemoveDirectory(s) \/ DirectoryFails(s) => sdel'[s].at = "emptied"
         /\ VersionFails(s) => sdel'[s].at = "ended"
         /\ RemovePreview(s) => sdel'[s].at = "removed"
<1>1. sdel \in [SceneDeletes -> SceneDeleter]
  BY DEF TypeInv, TypeOK, SceneDeleter
<1>2. PICK v \in SceneDeleter : sdel' = [sdel EXCEPT ![s] = v] /\ v.at # "idle"
                                /\ (v.at = "removing" => v.left \subseteq Numbers)
  <2>1. CASE ListScene(s)
    <3> DEFINE v == [at |-> "removing", left |-> Held, flat |-> AtFlat(1)]
    <3>1. v \in SceneDeleter /\ Held \subseteq Numbers
      BY MaxNumberAssumption DEF SceneDeleter, Held, AtFlat, Numbers
    <3> QED
      BY <2>1, <3>1 DEF ListScene
  <2>2. CASE RemoveNext(s)
    <3> DEFINE n == Min(sdel[s].left)
               v == IF There(n, n = 1 /\ sdel[s].flat) = Absent
                    THEN Finished("ended") ELSE [sdel[s] EXCEPT !.left = @ \ {n}]
    <3>1. sdel[s].at = "removing" /\ sdel[s].left \subseteq Numbers /\ sdel[s] \in SceneDeleter
      BY <1>1, <2>2 DEF RemoveNext, TypeInv, RemovesNumbers
    <3>2. sdel' = [sdel EXCEPT ![s] = v]
      BY <2>2 DEF RemoveNext
    <3>3. /\ [sdel[s] EXCEPT !.left = @ \ {n}] \in SceneDeleter
          /\ [sdel[s] EXCEPT !.left = @ \ {n}].at = "removing"
          /\ [sdel[s] EXCEPT !.left = @ \ {n}].left \subseteq Numbers
      BY <3>1 DEF SceneDeleter
    <3>4. Finished("ended") \in SceneDeleter /\ Finished("ended").at = "ended"
      BY DEF Finished, SceneDeleter
    <3>5. v \in SceneDeleter /\ v.at # "idle" /\ (v.at = "removing" => v.left \subseteq Numbers)
      BY <3>3, <3>4
    <3> QED
      BY <3>2, <3>5
  <2>3. CASE ListDirectory(s)
    <3> DEFINE v == [at |-> "erasing", left |-> Entries, flat |-> FALSE]
    <3>1. v \in SceneDeleter
      BY EntriesFacts DEF SceneDeleter, TypeInv
    <3> QED
      BY <2>3, <3>1 DEF ListDirectory
  <2>4. CASE Erase(s)
    <3>1. PICK e \in Entries : sdel' = [sdel EXCEPT ![s] = [sdel[s] EXCEPT !.left = @ \ {e}]]
      BY <2>4 DEF Erase
    <3>2. sdel[s].at = "erasing" /\ sdel[s] \in SceneDeleter
      BY <1>1, <2>4 DEF Erase
    <3>3. /\ [sdel[s] EXCEPT !.left = @ \ {e}] \in SceneDeleter
          /\ [sdel[s] EXCEPT !.left = @ \ {e}].at = "erasing"
      BY <3>2 DEF SceneDeleter
    <3> QED
      BY <3>1, <3>3
  <2>5. CASE RemoveDirectory(s) \/ DirectoryFails(s)
    <3>1. Finished("emptied") \in SceneDeleter /\ Finished("emptied").at = "emptied"
      BY DEF Finished, SceneDeleter
    <3> QED
      BY <2>5, <3>1 DEF RemoveDirectory, DirectoryFails
  <2>6. CASE VersionFails(s)
    <3>1. Finished("ended") \in SceneDeleter /\ Finished("ended").at = "ended"
      BY DEF Finished, SceneDeleter
    <3> QED
      BY <2>6, <3>1 DEF VersionFails
  <2>7. CASE RemovePreview(s)
    <3>1. sdel' = [sdel EXCEPT ![s] = [sdel[s] EXCEPT !.at = "removed"]]
      BY <2>7 DEF RemovePreview
    <3>2. /\ [sdel[s] EXCEPT !.at = "removed"] \in SceneDeleter
          /\ [sdel[s] EXCEPT !.at = "removed"].at = "removed"
      BY <1>1 DEF SceneDeleter
    <3> QED
      BY <3>1, <3>2
  <2> QED
    BY <2>1, <2>2, <2>3, <2>4, <2>5, <2>6, <2>7 DEF SceneDeleting
<1>3. /\ sdel' \in [SceneDeletes -> SceneDeleter]
      /\ \A o \in SceneDeletes \ {s} : sdel'[o] = sdel[o]
      /\ sdel'[s] = v
  BY <1>1, <1>2
<1>4. /\ ListScene(s) => sdel'[s] = [at |-> "removing", left |-> Held, flat |-> AtFlat(1)]
      /\ ListDirectory(s) => sdel'[s] = [at |-> "erasing", left |-> Entries, flat |-> FALSE]
  BY <1>1 DEF ListScene, ListDirectory
<1>5. ASSUME NEW e \in Entries, sdel' = [sdel EXCEPT ![s].left = @ \ {e}]
      PROVE  sdel'[s].left = sdel[s].left \ {e} /\ sdel'[s].at = sdel[s].at
  BY <1>1, <1>5 DEF SceneDeleter
<1>6. RemoveDirectory(s) \/ DirectoryFails(s) => sdel'[s].at = "emptied"
  BY <1>1 DEF RemoveDirectory, DirectoryFails, Finished
<1>7. VersionFails(s) => sdel'[s].at = "ended"
  BY <1>1 DEF VersionFails, Finished
<1>8. RemovePreview(s) => sdel'[s].at = "removed"
  BY <1>1 DEF RemovePreview, SceneDeleter
<1> QED
  BY <1>2, <1>3, <1>4, <1>5, <1>6, <1>7, <1>8

LEMMA SceneDeleteKeepsType ==
  ASSUME TypeInv, NEW s \in SceneDeletes, SceneDeleting(s) PROVE TypeInv'
<1> USE DEF TypeInv
<1>1. sdel' \in [SceneDeletes -> SceneDeleter] /\ RemovesNumbers'
  BY SceneDeleteMoves DEF RemovesNumbers
<1>2. vdel' = vdel => DeletesANumber'
  BY DEF DeletesANumber
<1>3. CASE UNCHANGED <<disk, running, conv, vdel, viewer, reader, deleted>>
  <2>1. preview' \in BOOLEAN /\ fresh' \in [SceneDeletes -> SUBSET Convs] /\ disturbed' \subseteq SceneDeletes
    BY DEF TypeOK, SceneDeleting, ListScene, RemoveNext, ListDirectory, Erase, RemoveDirectory,
       VersionFails, DirectoryFails, RemovePreview, history
  <2> QED
    BY <1>1, <1>2, <1>3, <2>1 DEF TypeOK, SceneDeleter, disk, last
<1>4. CASE RemoveNext(s)
  <2> DEFINE n == Min(sdel[s].left)
             isFlat == n = 1 /\ sdel[s].flat
  <2>1. sdel[s].left # {} /\ sdel[s].left \subseteq Numbers
    BY <1>4 DEF RemoveNext, RemovesNumbers
  <2>2. n \in Numbers
    BY <2>1, LowestIsOne
  <2>3. /\ Unlink(n, isFlat) /\ deleted' = deleted \union ({There(n, isFlat).by} \ {NoOne})
        /\ UNCHANGED <<dir, last, preview, running, conv, vdel, viewer, reader, fresh, disturbed>>
    BY <1>4 DEF RemoveNext
  <2> HIDE DEF n, isFlat
  <2>4. flat' \in File /\ file' \in [Numbers -> File]
    BY <2>3, AbsentFacts DEF Unlink, TypeOK
  <2>5. {There(n, isFlat).by} \ {NoOne} \subseteq Models
    BY <2>2 DEF There, TypeOK, File
  <2> QED
    BY <1>1, <1>2, <2>3, <2>4, <2>5 DEF TypeOK, SceneDeleter, last
<1>5. CASE Erase(s)
  <2>1. PICK e \in Entries :
          /\ IF e = 0 THEN mark' = 0 /\ marked' = FALSE /\ handles' = {} /\ UNCHANGED <<file, deleted>>
                      ELSE /\ file' = [file EXCEPT ![e] = Absent]
                           /\ deleted' = deleted \union ({file[e].by} \ {NoOne}) /\ UNCHANGED last
    BY <1>5 DEF Erase
  <2>2. 0 \in 0..MaxNumber
    BY MaxNumberAssumption
  <2>3. e # 0 => {file[e].by} \ {NoOne} \subseteq Models
    BY DEF Entries, TypeOK, File
  <2>4. /\ mark' \in 0..MaxNumber /\ marked' \in BOOLEAN /\ handles' \subseteq Convs
        /\ file' \in [Numbers -> File] /\ deleted' \subseteq Models
    <3>1. CASE e = 0
      BY <2>1, <2>2, <3>1 DEF TypeOK
    <3>2. CASE e # 0
      BY <2>1, <2>3, <3>2, AbsentFacts DEF TypeOK, last
    <3> QED
      BY <3>1, <3>2
  <2> QED
    BY <1>1, <1>2, <1>5, <2>4 DEF Erase, TypeOK, SceneDeleter
<1>6. CASE RemoveDirectory(s)
  BY <1>1, <1>2, <1>6 DEF RemoveDirectory, TypeOK, SceneDeleter, last, history
<1> QED
  BY <1>3, <1>4, <1>5, <1>6 DEF SceneDeleting, ListScene, ListDirectory, VersionFails, DirectoryFails,
     RemovePreview, history

LEMMA ViewerKeepsType ==
  ASSUME TypeInv, NEW w \in Viewers, Viewing(w) PROVE TypeInv'
<1> USE DEF TypeInv, TypeOK, DeletesANumber, RemovesNumbers, disk, last, history
<1>1. CASE CheckScene(w)
  BY <1>1 DEF CheckScene
<1>2. CASE StorePreview(w)
  BY <1>2 DEF StorePreview
<1> QED
  BY <1>1, <1>2 DEF Viewing

LEMMA ReaderKeepsType ==
  ASSUME TypeInv, NEW r \in Readers, Open(r) PROVE TypeInv'
<1> USE DEF TypeInv, TypeOK, DeletesANumber, RemovesNumbers, disk, last, history
<1>1. At(Newest).by \in Models \union {NoOne} /\ Newest \in 0..MaxNumber
  BY NewestFacts DEF At, Held, File, Open
<1> QED
  BY <1>1 DEF Open

LEMMA TypeStep == TypeInv /\ [Next]_vars => TypeInv'
<1> SUFFICES ASSUME TypeInv, [Next]_vars PROVE TypeInv'
  OBVIOUS
<1>1. ASSUME NEW c \in Convs, Conversion(c) PROVE TypeInv'
  <2>1. TypeOK'
    BY <1>1, ConversionKeepsType DEF TypeInv
  <2>2. vdel' = vdel /\ sdel' = sdel
    BY <1>1 DEF Conversion, MakeDirectory, ListPresent, ReadMark, EmptyMark, WriteMark, MarkFails,
       Begin, Skip, Create, Complete, Land, ForgetPreview, Fail, Cancel
  <2> QED
    BY <2>1, <2>2 DEF TypeInv, DeletesANumber, RemovesNumbers
<1>2. CASE UNCHANGED vars
  BY <1>2 DEF vars, TypeInv, TypeOK, DeletesANumber, RemovesNumbers
<1> QED
  BY <1>1, <1>2, VersionDeleteKeepsType, SceneDeleteKeepsType, ViewerKeepsType, ReaderKeepsType
     DEF Next, VersionDeleting, SceneDeleting, Viewing

LEMMA TypesAreKept == Spec => []TypeInv
<1>1. Init => TypeInv
  BY TypeInit DEF TypeInv, DeletesANumber, RemovesNumbers, Init
<1> QED
  BY <1>1, TypeStep, PTL DEF Spec

\* Every variable keeps to its values, whatever is uploaded, deleted and
\* looked at.
THEOREM ScenesTypeCorrect == Spec => []TypeOK
<1>1. TypeInv => TypeOK
  BY DEF TypeInv
<1> QED
  BY <1>1, TypesAreKept, PTL

-----------------------------------------------------------------------------
(* The inductive invariant behind numbers, readers and landed versions.     *)

HasNumber(c) == conv[c].at \notin {"idle", "made", "listed"}
IsMarking(c) == conv[c].at \in {"numbered", "marking"}

NumberedWhenHas == \A c \in Convs : HasNumber(c) <=> conv[c].number # 0

\* The directory is made before a number is, and stays.
DirectoryIsThere == \A c \in Convs : conv[c].at # "idle" => dir

\* What waiting for the reply is for: one upload at a time gets a number.
OneIsNumbered ==
    \A c, o \in Convs : conv[c].at \in Numbering /\ conv[o].at \in Numbering => c = o

\* No number is above the mark, except that of the upload that writes it.
MarkIsHighest ==
    (\A o \in Convs : ~IsMarking(o)) => \A c \in Convs : conv[c].number <= mark

MarkingIsHighest ==
    \A o \in Convs : IsMarking(o) =>
      \A c \in Convs \ {o} : conv[c].number < conv[o].number

\* A file is by the conversion that has its number.
FilesAreNumbered ==
    \A n \in Numbers : file[n] # Absent =>
      file[n].by \in Convs /\ conv[file[n].by].number = n

\* Number 1 is the flat scene's, also once that is deleted: it is deleted only
\* where another version is, whose number is then at least 2.
FlatIsLegacy == flat = Absent \/ (HasFlat /\ flat = [by |-> Legacy, whole |-> TRUE])

OneIsTheFlats ==
    HasFlat =>
      /\ \A c \in Convs : conv[c].number # 1
      /\ flat # Absent \/ \E c \in Convs : HasNumber(c)
      /\ \A c \in Convs : conv[c].at = "listed" =>
           conv[c].present # 0 \/ \E o \in Convs : HasNumber(o)
      /\ \A d \in VersionDeletes : vdel[d].at = "listed" /\ vdel[d].flat =>
           \E c \in Convs : HasNumber(c)

ReadersGotTheirs ==
    \A r \in Readers : reader[r].number # 0 =>
      \/ reader[r].got \in Convs /\ conv[reader[r].got].number = reader[r].number
      \/ reader[r].got = Legacy /\ HasFlat /\ reader[r].number = 1

\* Only a request to delete it takes away what a conversion writes.
WrittenStays ==
    \A c \in Convs \ deleted :
      /\ conv[c].at = "writing" => file[conv[c].number] = [by |-> c, whole |-> FALSE]
      /\ conv[c].at \in {"written", "landed", "done"} =>
           file[conv[c].number] = [by |-> c, whole |-> TRUE]

UniqueNumbers ==
    \A c, o \in Convs : conv[c].number = conv[o].number /\ conv[c].number # 0 => c = o

\* Who is writing the mark has the file there is open.
MarkIsOpen == \A c \in Convs : conv[c].at = "marking" => c \in handles

Inv ==
    /\ TypeInv
    /\ MarkIsOpen
    /\ NumberedWhenHas
    /\ DirectoryIsThere
    /\ OneIsNumbered
    /\ MarkIsHighest
    /\ MarkingIsHighest
    /\ UniqueNumbers
    /\ FilesAreNumbered
    /\ FlatIsLegacy
    /\ OneIsTheFlats
    /\ ReadersGotTheirs
    /\ WrittenStays

LEMMA InvInit == Init => Inv
<1> SUFFICES ASSUME Init PROVE Inv
  OBVIOUS
<1>1. /\ \A c \in Convs : conv[c] = [at |-> "idle", present |-> 0, number |-> 0]
      /\ \A n \in Numbers : file[n] = Absent
      /\ \A d \in VersionDeletes : vdel[d].at = "idle"
      /\ \A r \in Readers : reader[r].number = 0
      /\ flat = Absent \/ (HasFlat /\ flat = [by |-> Legacy, whole |-> TRUE])
      /\ HasFlat => flat # Absent
  BY ConvsAssumption, AbsentFacts DEF Init, Absent
<1>2. TypeInv
  <2>1. \A s \in SceneDeletes : sdel[s].at = "idle"
    BY DEF Init
  <2> QED
    BY <1>1, <2>1, TypeInit DEF TypeInv, DeletesANumber, RemovesNumbers
<1>3. mark = 0
  BY DEF Init
<1> QED
  BY <1>1, <1>2, <1>3 DEF Inv, NumberedWhenHas, HasNumber, DirectoryIsThere, OneIsNumbered, Numbering,
     MarkIsHighest, MarkingIsHighest, IsMarking, UniqueNumbers, FilesAreNumbered,
     FlatIsLegacy, OneIsTheFlats, ReadersGotTheirs, WrittenStays, MarkIsOpen

-----------------------------------------------------------------------------
(* Steps of a conversion.                                                   *)

LEMMA GoesFacts ==
  ASSUME TypeOK, NEW c \in Convs, NEW to, Goes(c, to)
  PROVE  /\ conv'[c].at = to
         /\ \A o \in Convs \ {c} : conv'[o] = conv[o]
         /\ \A o \in Convs : conv'[o].number = conv[o].number /\ conv'[o].present = conv[o].present
<1>1. conv \in [Convs -> ConvState]
  BY ConvFacts
<1>2. conv' = [conv EXCEPT ![c] = [conv[c] EXCEPT !.at = to]]
  BY DEF Goes
<1>3. \A s \in ConvState : /\ [s EXCEPT !.at = to].at = to
                          /\ [s EXCEPT !.at = to].number = s.number
                          /\ [s EXCEPT !.at = to].present = s.present
  BY DEF ConvState
<1> QED
  BY <1>1, <1>2, <1>3

\* What the numbers have to do with nothing but where conversions are.
Settled == {"queued", "converting", "writing", "written", "landed", "done", "failed", "cancelled"}

\* A conversion that has its number moves on.
LEMMA SettledKeeps ==
  ASSUME Inv, NEW c \in Convs, NEW to \in Settled, Goes(c, to), conv[c].at \in Settled,
         UNCHANGED <<flat, dir, last, vdel, reader>>
  PROVE  /\ NumberedWhenHas' /\ MarkIsOpen' /\ DirectoryIsThere' /\ OneIsNumbered' /\ MarkIsHighest'
         /\ MarkingIsHighest' /\ UniqueNumbers' /\ FlatIsLegacy' /\ OneIsTheFlats'
         /\ ReadersGotTheirs'
<1>1. /\ conv'[c].at = to
      /\ \A o \in Convs \ {c} : conv'[o] = conv[o]
      /\ \A o \in Convs : conv'[o].number = conv[o].number /\ conv'[o].present = conv[o].present
  BY GoesFacts DEF Inv, TypeInv
<1>2. \A o \in Convs : /\ HasNumber(o)' <=> HasNumber(o)
                       /\ IsMarking(o)' <=> IsMarking(o)
                       /\ conv'[o].at \in Numbering <=> conv[o].at \in Numbering
                       /\ conv'[o].at = "listed" <=> conv[o].at = "listed"
                       /\ conv'[o].at = "idle" <=> conv[o].at = "idle"
  BY <1>1 DEF HasNumber, IsMarking, Settled, Numbering
<1>3. NumberedWhenHas' /\ DirectoryIsThere' /\ OneIsNumbered' /\ UniqueNumbers'
  BY <1>1, <1>2 DEF Inv, NumberedWhenHas, DirectoryIsThere, OneIsNumbered, UniqueNumbers
<1>4. MarkIsHighest' /\ MarkingIsHighest'
  BY <1>1, <1>2 DEF Inv, MarkIsHighest, MarkingIsHighest, last
<1>5. FlatIsLegacy' /\ OneIsTheFlats' /\ ReadersGotTheirs'
  BY <1>1, <1>2 DEF Inv, FlatIsLegacy, OneIsTheFlats, ReadersGotTheirs
<1>6. MarkIsOpen'
  BY <1>1 DEF Inv, MarkIsOpen, Settled, last
<1> QED
  BY <1>3, <1>4, <1>5, <1>6

\* A conversion's number is its own, and one there can be.
LEMMA OwnNumber ==
  ASSUME Inv, NEW c \in Convs, conv[c].at \in Settled
  PROVE  /\ conv[c].number \in Numbers
         /\ \A o \in Convs \ {c} : conv[o].number # conv[c].number
         /\ \A n \in Numbers : file[n] # Absent /\ file[n].by = c => n = conv[c].number
         /\ file[conv[c].number] # Absent => file[conv[c].number].by = c
<1>1. conv[c].number # 0 /\ conv[c].number \in 0..MaxNumber
  BY ConvFacts DEF Inv, TypeInv, NumberedWhenHas, HasNumber, Settled
<1>2. conv[c].number \in Numbers
  BY <1>1, MaxNumberAssumption DEF Numbers
<1> QED
  BY <1>1, <1>2 DEF Inv, UniqueNumbers, FilesAreNumbered

\* It moves on and no file changes.
LEMMA MoveKeeps ==
  ASSUME Inv, TypeInv', NEW c \in Convs, NEW to, Goes(c, to),
         \/ conv[c].at = "queued" /\ to \in {"converting", "cancelled"}
         \/ conv[c].at = "written" /\ to = "landed"
         \/ conv[c].at = "landed" /\ to = "done"
         \/ conv[c].at \in {"converting", "writing"} /\ to = "failed",
         UNCHANGED <<flat, dir, file, last, vdel, reader, deleted>>
  PROVE  Inv'
<1>1. to \in Settled /\ conv[c].at \in Settled
  BY DEF Settled
<1>2. /\ conv'[c].at = to
      /\ \A o \in Convs \ {c} : conv'[o] = conv[o]
      /\ \A o \in Convs : conv'[o].number = conv[o].number
  BY GoesFacts DEF Inv, TypeInv
<1>3. FilesAreNumbered'
  BY <1>2 DEF Inv, FilesAreNumbered
<1>4. WrittenStays'
  BY <1>2 DEF Inv, WrittenStays
<1> QED
  BY <1>1, <1>3, <1>4, SettledKeeps DEF Inv

\* It writes or removes the file of its number.
LEMMA OwnFileKeeps ==
  ASSUME Inv, TypeInv', NEW c \in Convs, NEW to, Goes(c, to), NEW content,
         \/ conv[c].at = "converting" /\ to = "writing" /\ content = [by |-> c, whole |-> FALSE]
         \/ conv[c].at = "writing" /\ to = "written"
              /\ content = IF file[conv[c].number] = Absent THEN Absent ELSE [by |-> c, whole |-> TRUE]
         \/ conv[c].at \in {"converting", "writing", "written"} /\ to = "cancelled"
              /\ content = Absent,
         file' = [file EXCEPT ![conv[c].number] = content],
         UNCHANGED <<flat, dir, last, vdel, reader, deleted>>
  PROVE  Inv'
<1>1. to \in Settled /\ conv[c].at \in Settled
  BY DEF Settled
<1>2. /\ conv'[c].at = to
      /\ \A o \in Convs \ {c} : conv'[o] = conv[o]
      /\ \A o \in Convs : conv'[o].number = conv[o].number
  BY GoesFacts DEF Inv, TypeInv
<1>3. /\ conv[c].number \in Numbers
      /\ \A o \in Convs \ {c} : conv[o].number # conv[c].number
      /\ \A n \in Numbers : file[n] # Absent /\ file[n].by = c => n = conv[c].number
      /\ file[conv[c].number] # Absent => file[conv[c].number].by = c
  BY <1>1, OwnNumber
<1>4. /\ file'[conv[c].number] = content
      /\ \A n \in Numbers \ {conv[c].number} : file'[n] = file[n]
  BY <1>3 DEF Inv, TypeInv, TypeOK
<1>5. content # Absent => /\ content.by = c
                          /\ to = "writing" \/ (to = "written" /\ content.whole)
  OBVIOUS
<1>6. FilesAreNumbered'
  BY <1>2, <1>3, <1>4, <1>5 DEF Inv, FilesAreNumbered
<1>7. WrittenStays'
  <2> SUFFICES ASSUME NEW o \in Convs, o \notin deleted
               PROVE  /\ conv'[o].at = "writing" =>
                            file'[conv[o].number] = [by |-> o, whole |-> FALSE]
                      /\ conv'[o].at \in {"written", "landed", "done"} =>
                            file'[conv[o].number] = [by |-> o, whole |-> TRUE]
    BY <1>2 DEF WrittenStays
  <2>1. CASE o = c
    <3>1. conv[c].at = "writing" => file[conv[c].number] # Absent
      <4>1. conv[c].at = "writing" => file[conv[c].number] = [by |-> c, whole |-> FALSE]
        BY <2>1 DEF Inv, WrittenStays
      <4> QED
        BY <4>1, ConvsAssumption, AbsentFacts
    <3> QED
      BY <1>2, <1>4, <2>1, <3>1
  <2>2. CASE o # c
    <3>1. conv[o].at \in Settled => conv[o].number \in Numbers
      BY OwnNumber
    <3> QED
      BY <1>2, <1>3, <1>4, <2>2, <3>1 DEF Inv, WrittenStays, Settled
  <2> QED
    BY <2>1, <2>2
<1> QED
  BY <1>1, <1>6, <1>7, SettledKeeps DEF Inv

-----------------------------------------------------------------------------
(* Getting a number.                                                        *)

\* Nothing is read or written but by the upload itself, which has no number
\* yet, or has just been handed one.
LEMMA FilesStay ==
  ASSUME Inv, NEW c \in Convs, conv[c].at \notin Settled,
         \A o \in Convs \ {c} : conv'[o] = conv[o],
         conv'[c].at \in {"made", "listed", "numbered", "marking", "queued"},
         conv[c].number # 0 => conv'[c].number = conv[c].number,
         UNCHANGED <<flat, file, reader, deleted>>
  PROVE  FilesAreNumbered' /\ FlatIsLegacy' /\ ReadersGotTheirs' /\ WrittenStays'
<1>1. conv[c].at \notin {"writing", "written", "landed", "done", "failed"}
  BY DEF Settled
<1>2. \A n \in Numbers : n # 0
  BY DEF Numbers
<1>3. FilesAreNumbered' /\ FlatIsLegacy' /\ ReadersGotTheirs'
  BY <1>2 DEF Inv, FilesAreNumbered, FlatIsLegacy, ReadersGotTheirs
<1>4. WrittenStays'
  BY <1>1 DEF Inv, WrittenStays
<1> QED
  BY <1>3, <1>4

LEMMA MakeDirectoryKeeps ==
  ASSUME Inv, InTurn, TypeInv', NEW c \in Convs, MakeDirectory(c) PROVE Inv'
<1>1. /\ conv[c].at = "idle" /\ Patient(c) /\ dir' = TRUE /\ Goes(c, "made")
      /\ UNCHANGED <<flat, file, mark, handles, vdel, reader, deleted>>
  BY DEF MakeDirectory, last
<1>2. /\ conv'[c].at = "made"
      /\ \A o \in Convs \ {c} : conv'[o] = conv[o]
      /\ \A o \in Convs : conv'[o].number = conv[o].number /\ conv'[o].present = conv[o].present
  BY <1>1, GoesFacts DEF Inv, TypeInv
<1>3. \A o \in Convs \ {c} : conv[o].at \notin Numbering
  BY <1>1, PatienceAssumption DEF Patient, InTurn, Numbering, Over
<1>4. \A o \in Convs : (HasNumber(o)' <=> HasNumber(o)) /\ (IsMarking(o)' <=> IsMarking(o))
  BY <1>1, <1>2 DEF HasNumber, IsMarking
<1>5. NumberedWhenHas' /\ DirectoryIsThere' /\ UniqueNumbers'
  BY <1>1, <1>2, <1>4 DEF Inv, NumberedWhenHas, DirectoryIsThere, UniqueNumbers
<1>6. OneIsNumbered'
  BY <1>2, <1>3 DEF OneIsNumbered
<1>7. MarkIsHighest' /\ MarkingIsHighest'
  BY <1>1, <1>2, <1>4 DEF Inv, MarkIsHighest, MarkingIsHighest
<1>8. OneIsTheFlats'
  BY <1>1, <1>2, <1>4 DEF Inv, OneIsTheFlats
<1>9. FilesAreNumbered' /\ FlatIsLegacy' /\ ReadersGotTheirs' /\ WrittenStays'
  BY <1>1, <1>2, FilesStay DEF Settled
<1>10. MarkIsOpen'
  BY <1>1, <1>2 DEF Inv, MarkIsOpen
<1> QED
  BY <1>5, <1>6, <1>7, <1>8, <1>9, <1>10 DEF Inv

LEMMA ListPresentKeeps ==
  ASSUME Inv, TypeInv', NEW c \in Convs, ListPresent(c) PROVE Inv'
<1>1. /\ conv[c].at = "made"
      /\ conv' = [conv EXCEPT ![c] = [conv[c] EXCEPT !.at = "listed", !.present = Newest]]
      /\ UNCHANGED <<flat, dir, file, mark, handles, vdel, reader, deleted>>
  BY DEF ListPresent, disk, last, history
<1>2. /\ conv'[c].at = "listed" /\ conv'[c].present = Newest /\ conv'[c].number = conv[c].number
      /\ \A o \in Convs \ {c} : conv'[o] = conv[o]
  <2>1. conv \in [Convs -> ConvState] /\ conv[c] \in ConvState
    BY ConvFacts DEF Inv, TypeInv
  <2>2. /\ [conv[c] EXCEPT !.at = "listed", !.present = Newest].at = "listed"
        /\ [conv[c] EXCEPT !.at = "listed", !.present = Newest].present = Newest
        /\ [conv[c] EXCEPT !.at = "listed", !.present = Newest].number = conv[c].number
    BY <2>1 DEF ConvState
  <2> QED
    BY <1>1, <2>1, <2>2
<1>3. \A o \in Convs : /\ (HasNumber(o)' <=> HasNumber(o)) /\ (IsMarking(o)' <=> IsMarking(o))
                       /\ conv'[o].number = conv[o].number
  BY <1>1, <1>2 DEF HasNumber, IsMarking
<1>4. NumberedWhenHas' /\ DirectoryIsThere' /\ UniqueNumbers'
  BY <1>1, <1>2, <1>3 DEF Inv, NumberedWhenHas, DirectoryIsThere, UniqueNumbers
<1>5. OneIsNumbered'
  BY <1>1, <1>2 DEF Inv, OneIsNumbered, Numbering
<1>6. MarkIsHighest' /\ MarkingIsHighest'
  BY <1>1, <1>3 DEF Inv, MarkIsHighest, MarkingIsHighest
<1>7. flat # Absent => Newest # 0
  <2> SUFFICES ASSUME flat # Absent PROVE Newest # 0
    OBVIOUS
  <2>1. 1 \in Held
    BY MaxNumberAssumption DEF Held, At, AtFlat, Numbers
  <2> QED
    BY <2>1, NewestFacts DEF Held, Numbers
<1>8. OneIsTheFlats'
  BY <1>1, <1>2, <1>3, <1>7 DEF Inv, OneIsTheFlats
<1>9. FilesAreNumbered' /\ FlatIsLegacy' /\ ReadersGotTheirs' /\ WrittenStays'
  BY <1>1, <1>2, FilesStay DEF Settled
<1>10. MarkIsOpen'
  BY <1>1, <1>2 DEF Inv, MarkIsOpen
<1> QED
  BY <1>4, <1>5, <1>6, <1>8, <1>9, <1>10 DEF Inv

\* The number handed out is above every other: nobody is writing the mark, so
\* the mark read is the highest there was.
LEMMA ReadMarkKeeps ==
  ASSUME Inv, TypeInv', NEW c \in Convs, ReadMark(c) PROVE Inv'
<1> DEFINE n == NextNumber(c)
<1>1. /\ conv[c].at = "listed"
      /\ conv' = [conv EXCEPT ![c] = [at |-> "numbered", present |-> 0, number |-> n]]
      /\ UNCHANGED <<flat, dir, file, mark, handles, vdel, reader, deleted>>
  BY DEF ReadMark, disk, last, history
<1>2. \A o \in Convs : conv[o].number \in Nat
  BY NumbersAreNaturals DEF Inv, TypeInv
<1>3. n \in Nat /\ n > mark /\ n > conv[c].present /\ mark \in Nat /\ conv[c].present \in Nat
  <2>1. conv[c].present \in Nat /\ mark \in Nat
    BY NumbersAreNaturals DEF Inv, TypeInv
  <2> DEFINE m == Max({conv[c].present, mark})
  <2>2. m \in Nat /\ m >= conv[c].present /\ m >= mark /\ n = m + 1
    BY <2>1, HigherOfTwo DEF NextNumber
  <2> HIDE DEF m, n
  <2> QED
    BY <2>1, <2>2
<1> HIDE DEF n
<1>4. /\ conv'[c].at = "numbered" /\ conv'[c].number = n
      /\ \A o \in Convs \ {c} : conv'[o] = conv[o]
  <2>1. conv \in [Convs -> ConvState] /\ conv[c] \in ConvState
    BY ConvFacts DEF Inv, TypeInv
  <2>2. /\ [at |-> "numbered", present |-> 0, number |-> n].at = "numbered"
        /\ [at |-> "numbered", present |-> 0, number |-> n].number = n
    BY <2>1 DEF ConvState
  <2> QED
    BY <1>1, <2>1, <2>2
<1>5. conv[c].number = 0
  BY <1>1 DEF Inv, NumberedWhenHas, HasNumber
<1>6. \A o \in Convs : ~IsMarking(o)
  BY <1>1 DEF Inv, OneIsNumbered, IsMarking, Numbering
<1>7. \A o \in Convs : conv[o].number <= mark
  BY <1>6 DEF Inv, MarkIsHighest
<1>8. \A o \in Convs \ {c} : conv'[o].number < n
  BY <1>2, <1>3, <1>4, <1>7
<1>9. NumberedWhenHas' /\ DirectoryIsThere' /\ UniqueNumbers'
  BY <1>1, <1>2, <1>3, <1>4, <1>8 DEF Inv, NumberedWhenHas, HasNumber, DirectoryIsThere,
     UniqueNumbers
<1>10. OneIsNumbered'
  BY <1>1, <1>4 DEF Inv, OneIsNumbered, Numbering
<1>11. MarkIsHighest' /\ MarkingIsHighest'
  BY <1>4, <1>6, <1>8 DEF MarkIsHighest, MarkingIsHighest, IsMarking
<1>12. OneIsTheFlats'
  <2> SUFFICES ASSUME HasFlat PROVE OneIsTheFlats'
    BY DEF OneIsTheFlats
  <2>1. n # 1
    <3>1. CASE conv[c].present # 0
      BY <1>3, <3>1
    <3>2. CASE \E o \in Convs : HasNumber(o)
      <4>1. PICK o \in Convs : HasNumber(o)
        BY <3>2
      <4>2. conv[o].number # 0 /\ conv[o].number # 1 /\ conv[o].number <= mark
        BY <1>7, <4>1 DEF Inv, NumberedWhenHas, OneIsTheFlats
      <4> QED
        BY <1>2, <1>3, <4>2
    <3> QED
      BY <1>1, <3>1, <3>2 DEF Inv, OneIsTheFlats
  <2>2. HasNumber(c)'
    BY <1>4 DEF HasNumber
  <2> QED
    BY <1>1, <1>4, <2>1, <2>2 DEF Inv, OneIsTheFlats
<1>13. FilesAreNumbered' /\ FlatIsLegacy' /\ ReadersGotTheirs' /\ WrittenStays'
  BY <1>1, <1>4, <1>5, FilesStay DEF Settled
<1>14. MarkIsOpen'
  BY <1>1, <1>4 DEF Inv, MarkIsOpen
<1> QED
  BY <1>9, <1>10, <1>11, <1>12, <1>13, <1>14 DEF Inv

LEMMA MarkKeeps ==
  ASSUME Inv, TypeInv', NEW c \in Convs, EmptyMark(c) \/ WriteMark(c) PROVE Inv'
<1>1. PICK to \in {"marking", "queued"} :
        /\ IsMarking(c) /\ Goes(c, to)
        /\ \/ to = "marking" /\ handles' = handles \union {c}
           \/ /\ to = "queued" /\ conv[c].at = "marking"
              /\ mark' = Marked(c) /\ handles' = handles \ {c}
        /\ UNCHANGED <<flat, dir, file, vdel, reader, deleted>>
  <2>1. CASE EmptyMark(c)
    BY <2>1 DEF EmptyMark, IsMarking
  <2>2. CASE WriteMark(c)
    BY <2>2 DEF WriteMark, IsMarking, history
  <2> QED
    BY <2>1, <2>2
<1>2. /\ conv'[c].at = to
      /\ \A o \in Convs \ {c} : conv'[o] = conv[o]
      /\ \A o \in Convs : conv'[o].number = conv[o].number /\ conv'[o].present = conv[o].present
  BY <1>1, GoesFacts DEF Inv, TypeInv
<1>3. /\ \A o \in Convs \ {c} : ~IsMarking(o)
      /\ \A o \in Convs \ {c} : conv[o].number < conv[c].number
      /\ dir
  BY <1>1 DEF Inv, OneIsNumbered, MarkingIsHighest, DirectoryIsThere, IsMarking, Numbering
<1>4. \A o \in Convs : conv[o].number \in Nat
  BY NumbersAreNaturals DEF Inv, TypeInv
<1>5. \A o \in Convs : HasNumber(o)' <=> HasNumber(o)
  BY <1>1, <1>2 DEF HasNumber, IsMarking
<1>6. NumberedWhenHas' /\ DirectoryIsThere' /\ UniqueNumbers'
  BY <1>1, <1>2, <1>5 DEF Inv, NumberedWhenHas, DirectoryIsThere, UniqueNumbers, IsMarking
<1>7. OneIsNumbered'
  BY <1>1, <1>2 DEF Inv, OneIsNumbered, Numbering, IsMarking
<1>8. MarkingIsHighest'
  BY <1>2, <1>3 DEF MarkingIsHighest, IsMarking
<1>9. MarkIsHighest'
  <2>1. CASE to = "marking"
    BY <1>2, <2>1 DEF MarkIsHighest, IsMarking
  <2>2. CASE to = "queued"
    <3>1. mark' = conv[c].number
      BY <1>1, <2>2 DEF Marked, Inv, MarkIsOpen
    <3> QED
      BY <1>2, <1>3, <1>4, <3>1 DEF MarkIsHighest
  <2> QED
    BY <1>1, <2>1, <2>2
<1>10. OneIsTheFlats'
  BY <1>1, <1>2, <1>5 DEF Inv, OneIsTheFlats
<1>11. FilesAreNumbered' /\ FlatIsLegacy' /\ ReadersGotTheirs' /\ WrittenStays'
  BY <1>1, <1>2, FilesStay DEF Settled, IsMarking
<1>12. MarkIsOpen'
  BY <1>1, <1>2 DEF Inv, MarkIsOpen
<1> QED
  BY <1>6, <1>7, <1>8, <1>9, <1>10, <1>11, <1>12 DEF Inv

LEMMA WholeFacts ==
  \A f \in File, b \in BOOLEAN : [f EXCEPT !.whole = b] = [by |-> f.by, whole |-> b]
BY DEF File

LEMMA ConversionKeeps ==
  ASSUME Inv, InTurn, TypeInv', NEW c \in Convs, Conversion(c) PROVE Inv'
<1> USE DEF disk, history
<1>1. CASE MakeDirectory(c)
  BY <1>1, MakeDirectoryKeeps
<1>2. CASE ListPresent(c)
  BY <1>2, ListPresentKeeps
<1>3. CASE ReadMark(c)
  BY <1>3, ReadMarkKeeps
<1>4. CASE EmptyMark(c) \/ WriteMark(c)
  BY <1>4, MarkKeeps
<1>5. CASE MarkFails(c)
  BY <1>5 DEF MarkFails, InTurn, Inv, DirectoryIsThere
<1>6. CASE Begin(c) \/ Skip(c) \/ Land(c) \/ ForgetPreview(c)
  BY <1>6, MoveKeeps DEF Begin, Skip, Land, ForgetPreview
<1>7. CASE Fail(c)
  BY <1>7, MoveKeeps DEF Fail
<1>8. CASE Create(c)
  BY <1>8, OwnFileKeeps DEF Create
<1>9. CASE Cancel(c)
  BY <1>9, OwnFileKeeps DEF Cancel, Cleaned
<1>10. CASE Complete(c)
  <2> DEFINE n == conv[c].number
             content == IF file[n] = Absent THEN Absent ELSE [by |-> c, whole |-> TRUE]
  <2>1. n \in Numbers /\ (file[n] # Absent => file[n].by = c)
    BY <1>10, OwnNumber DEF Complete, Settled
  <2>2. file[n] \in File /\ c # NoOne
    BY <2>1, ConvsAssumption DEF Inv, TypeInv, TypeOK
  <2>3. [file[n] EXCEPT !.whole = @ \/ file[n].by = c] = content
    <3>1. CASE file[n] = Absent
      <4>1. (file[n].whole \/ file[n].by = c) = FALSE
        BY <2>2, <3>1, AbsentFacts
      <4>2. [file[n] EXCEPT !.whole = FALSE] = Absent
        BY <2>2, <3>1, WholeFacts, AbsentFacts DEF Absent
      <4> QED
        BY <3>1, <4>1, <4>2
    <3>2. CASE file[n] # Absent
      <4>1. (file[n].whole \/ file[n].by = c) = TRUE
        BY <2>1, <3>2
      <4>2. [file[n] EXCEPT !.whole = TRUE] = [by |-> c, whole |-> TRUE]
        BY <2>1, <2>2, <3>2, WholeFacts
      <4> QED
        BY <3>2, <4>1, <4>2
    <3> QED
      BY <3>1, <3>2
  <2>4. file' = [file EXCEPT ![n] = [file[n] EXCEPT !.whole = @ \/ file[n].by = c]]
    BY <1>10 DEF Complete
  <2>5. file' = [file EXCEPT ![n] = content]
    BY <2>3, <2>4
  <2> QED
    BY <1>10, <2>5, OwnFileKeeps DEF Complete
<1> QED
  BY <1>1, <1>2, <1>3, <1>4, <1>5, <1>6, <1>7, <1>8, <1>9, <1>10 DEF Conversion

-----------------------------------------------------------------------------
(* The other requests.                                                      *)

\* What depends on neither files nor requests to delete.
LEMMA ConversionsStay ==
  ASSUME Inv, UNCHANGED <<conv, dir, last>>
  PROVE  /\ MarkIsOpen' /\ NumberedWhenHas' /\ DirectoryIsThere' /\ OneIsNumbered' /\ MarkIsHighest'
         /\ MarkingIsHighest' /\ UniqueNumbers'
         /\ \A c \in Convs : HasNumber(c)' <=> HasNumber(c)
BY DEF Inv, NumberedWhenHas, HasNumber, DirectoryIsThere, OneIsNumbered, MarkIsHighest,
   IsMarking, MarkingIsHighest, UniqueNumbers, MarkIsOpen, last

\* The flat file goes only where there is another version.
LEMMA ListVersionsKeeps ==
  ASSUME Inv, TypeInv', NEW d \in VersionDeletes, NEW n \in Numbers, ListVersions(d, n)
  PROVE  Inv'
<1>1. /\ n \in Held /\ Cardinality(Held) # 1
      /\ vdel' = [vdel EXCEPT ![d] = [at |-> "listed", number |-> n,
                                      flat |-> AtFlat(n), newest |-> n = Newest]]
      /\ UNCHANGED <<flat, dir, file, last, conv, reader, deleted>>
  BY DEF ListVersions, disk, history
<1>2. vdel'[d].flat = AtFlat(n) /\ \A o \in VersionDeletes \ {d} : vdel'[o] = vdel[o]
  BY <1>1 DEF Inv, TypeInv, TypeOK
<1>3. AtFlat(n) => \E c \in Convs : HasNumber(c)
  <2> SUFFICES ASSUME AtFlat(n) PROVE \E c \in Convs : HasNumber(c)
    OBVIOUS
  <2>1. PICK m \in Held : m # n
    <3>1. Held # {n}
      BY <1>1, FS_Singleton
    <3> QED
      BY <1>1, <3>1
  <2>2. m \in Numbers /\ m # 0 /\ file[m] # Absent
    BY <2>1 DEF Held, At, AtFlat, Numbers
  <2>3. file[m].by \in Convs /\ conv[file[m].by].number = m
    BY <2>2 DEF Inv, FilesAreNumbered
  <2> QED
    BY <2>2, <2>3 DEF Inv, NumberedWhenHas
<1>4. /\ MarkIsOpen' /\ NumberedWhenHas' /\ DirectoryIsThere' /\ OneIsNumbered' /\ MarkIsHighest'
      /\ MarkingIsHighest' /\ UniqueNumbers'
      /\ \A c \in Convs : HasNumber(c)' <=> HasNumber(c)
  BY <1>1, ConversionsStay
<1>5. OneIsTheFlats'
  BY <1>1, <1>2, <1>3, <1>4 DEF Inv, OneIsTheFlats
<1>6. FilesAreNumbered' /\ FlatIsLegacy' /\ ReadersGotTheirs' /\ WrittenStays'
  BY <1>1 DEF Inv, FilesAreNumbered, FlatIsLegacy, ReadersGotTheirs, WrittenStays
<1> QED
  BY <1>4, <1>5, <1>6 DEF Inv

LEMMA RemoveVersionKeeps ==
  ASSUME Inv, TypeInv', NEW d \in VersionDeletes, RemoveVersion(d) PROVE Inv'
<1> DEFINE n == vdel[d].number
           isFlat == vdel[d].flat
<1>1. /\ vdel[d].at = "listed" /\ n \in Numbers
      /\ Unlink(n, isFlat) /\ deleted' = deleted \union ({There(n, isFlat).by} \ {NoOne})
      /\ UNCHANGED <<dir, last, conv, reader>>
  BY DEF RemoveVersion, Inv, TypeInv, DeletesANumber
<1>2. /\ vdel'[d].at # "listed"
      /\ \A o \in VersionDeletes \ {d} : vdel'[o] = vdel[o]
  BY DEF RemoveVersion, Inv, TypeInv, TypeOK
<1>3. /\ MarkIsOpen' /\ NumberedWhenHas' /\ DirectoryIsThere' /\ OneIsNumbered' /\ MarkIsHighest'
      /\ MarkingIsHighest' /\ UniqueNumbers'
      /\ \A c \in Convs : HasNumber(c)' <=> HasNumber(c)
  BY <1>1, ConversionsStay
<1>4. /\ \A m \in Numbers : file'[m] = file[m] \/ (m = n /\ ~isFlat /\ file'[m] = Absent)
      /\ flat' = flat \/ (isFlat /\ flat' = Absent)
  BY <1>1 DEF Unlink, Inv, TypeInv, TypeOK
<1>5. FilesAreNumbered' /\ ReadersGotTheirs' /\ FlatIsLegacy'
  BY <1>1, <1>4 DEF Inv, FilesAreNumbered, ReadersGotTheirs, FlatIsLegacy
<1>6. OneIsTheFlats'
  BY <1>1, <1>2, <1>3, <1>4 DEF Inv, OneIsTheFlats
<1>7. WrittenStays'
  <2> SUFFICES ASSUME NEW c \in Convs, c \notin deleted',
                      conv[c].at \in {"writing", "written", "landed", "done"}
               PROVE  file'[conv[c].number] = file[conv[c].number]
    BY <1>1 DEF Inv, WrittenStays
  <2>1. file[conv[c].number].by = c
    <3>1. c \notin deleted
      BY <1>1
    <3>2. \/ file[conv[c].number] = [by |-> c, whole |-> FALSE]
          \/ file[conv[c].number] = [by |-> c, whole |-> TRUE]
      BY <3>1 DEF Inv, WrittenStays
    <3> QED
      BY <3>2
  <2>2. conv[c].number \in Numbers
    BY OwnNumber DEF Settled
  <2>3. conv[c].number = n => isFlat
    BY <1>1, <2>1, ConvsAssumption DEF There
  <2> QED
    BY <1>4, <2>2, <2>3
<1> QED
  BY <1>3, <1>5, <1>6, <1>7 DEF Inv

LEMMA OthersKeep ==
  ASSUME Inv, TypeInv', UNCHANGED <<disk, conv, deleted>>,
         \/ UNCHANGED <<vdel, reader>>
         \/ \E d \in VersionDeletes : ForgetRemoved(d)
         \/ \E r \in Readers : Open(r)
  PROVE  Inv'
<1>1. /\ MarkIsOpen' /\ NumberedWhenHas' /\ DirectoryIsThere' /\ OneIsNumbered' /\ MarkIsHighest'
      /\ MarkingIsHighest' /\ UniqueNumbers'
      /\ \A c \in Convs : HasNumber(c)' <=> HasNumber(c)
  BY ConversionsStay DEF disk
<1>2. FilesAreNumbered' /\ FlatIsLegacy' /\ WrittenStays'
  BY DEF Inv, FilesAreNumbered, FlatIsLegacy, WrittenStays, disk
<1>3. \A d \in VersionDeletes : vdel'[d].at = "listed" => vdel'[d] = vdel[d]
  BY DEF ForgetRemoved, Open, Inv, TypeInv, TypeOK
<1>4. OneIsTheFlats'
  BY <1>1, <1>3 DEF Inv, OneIsTheFlats, disk
<1>5. ReadersGotTheirs'
  <2>1. CASE UNCHANGED reader
    BY <2>1 DEF Inv, ReadersGotTheirs
  <2>2. ASSUME NEW r \in Readers, Open(r) PROVE ReadersGotTheirs'
    <3>1. reader' = [reader EXCEPT ![r] = [number |-> Newest, got |-> At(Newest).by]]
      BY <2>2 DEF Open
    <3>2. /\ reader'[r].number = Newest /\ reader'[r].got = At(Newest).by
          /\ \A o \in Readers \ {r} : reader'[o] = reader[o]
      BY <3>1 DEF Inv, TypeInv, TypeOK
    <3>3. Newest \in Numbers /\ At(Newest) # Absent
      BY <2>2, NewestFacts DEF Open, Held
    <3>4. CASE AtFlat(Newest)
      <4>1. Newest = 1 /\ HasFlat /\ At(Newest).by = Legacy
        BY <3>3, <3>4 DEF At, AtFlat, Inv, FlatIsLegacy
      <4> QED
        BY <3>2, <4>1 DEF Inv, ReadersGotTheirs
    <3>5. CASE ~AtFlat(Newest)
      <4>1. At(Newest).by \in Convs /\ conv[At(Newest).by].number = Newest
        BY <3>3, <3>5 DEF At, Inv, FilesAreNumbered
      <4> QED
        BY <3>2, <4>1 DEF Inv, ReadersGotTheirs
    <3> QED
      BY <3>4, <3>5
  <2> QED
    BY <2>1, <2>2 DEF ForgetRemoved
<1> QED
  BY <1>1, <1>2, <1>4, <1>5 DEF Inv

-----------------------------------------------------------------------------
LEMMA InvStep == ASSUME InTurn PROVE Inv /\ Undeleted' /\ [Next]_vars => Inv'
<1> SUFFICES ASSUME Inv, Undeleted', [Next]_vars PROVE Inv'
  OBVIOUS
<1>1. TypeInv'
  BY TypeStep DEF Inv
<1>2. ASSUME NEW c \in Convs, Conversion(c) PROVE Inv'
  BY <1>1, <1>2, ConversionKeeps
<1>3. ASSUME NEW d \in VersionDeletes, VersionDeleting(d) PROVE Inv'
  <2>1. CASE ForgetRemoved(d)
    BY <1>1, <2>1, OthersKeep DEF ForgetRemoved, history
  <2> QED
    BY <1>1, <1>3, <2>1, ListVersionsKeeps, RemoveVersionKeeps DEF VersionDeleting
<1>4. ASSUME NEW w \in Viewers, Viewing(w) PROVE Inv'
  BY <1>1, <1>4, OthersKeep DEF Viewing, CheckScene, StorePreview, history
<1>5. ASSUME NEW r \in Readers, Open(r) PROVE Inv'
  BY <1>1, <1>5, OthersKeep DEF Open, history
<1>6. CASE UNCHANGED vars
  BY <1>1, <1>6, OthersKeep DEF vars, disk, last
<1>7. ASSUME NEW s \in SceneDeletes PROVE ~SceneDeleting(s)
  BY SceneDeleteMoves DEF Inv, Undeleted
<1> QED
  BY <1>2, <1>3, <1>4, <1>5, <1>6, <1>7 DEF Next, VersionDeleting, SceneDeleting, Viewing

\* What holds until somebody deletes the scene: a request that has begun to
\* never goes back.
UndeletedInv == TypeInv /\ (Undeleted => Inv)

LEMMA DeletionIsBegunOnce == TypeInv /\ [Next]_vars /\ Undeleted' => Undeleted
<1> SUFFICES ASSUME TypeInv, [Next]_vars, NEW s \in SceneDeletes, sdel'[s].at = "idle"
             PROVE  sdel[s].at = "idle"
  BY DEF Undeleted
<1>1. CASE sdel' = sdel
  BY <1>1
<1>2. ASSUME NEW o \in SceneDeletes, SceneDeleting(o) PROVE sdel[s].at = "idle"
  <2>1. sdel'[o].at # "idle" /\ \A i \in SceneDeletes \ {o} : sdel'[i] = sdel[i]
    BY <1>2, SceneDeleteMoves DEF TypeInv
  <2> QED
    BY <2>1
<1> QED
  BY <1>1, <1>2 DEF Next, SceneDeleting, Conversion, MakeDirectory, ListPresent, ReadMark, EmptyMark,
     WriteMark, MarkFails, Begin, Skip, Create, Complete, Land, ForgetPreview, Fail, Cancel,
     ListVersions, RemoveVersion, ForgetRemoved, CheckScene, StorePreview, Open, vars

LEMMA InvCorrect == ASSUME InTurn PROVE Spec => []UndeletedInv
<1>1. Init => UndeletedInv
  BY InvInit DEF UndeletedInv, Inv
<1>2. UndeletedInv /\ [Next]_vars => UndeletedInv'
  BY TypeStep, InvStep, DeletionIsBegunOnce DEF UndeletedInv
<1> QED
  BY <1>1, <1>2, PTL DEF Spec

\* No number is handed out twice to uploads that wait for each other's reply,
\* until somebody deletes the scene as a whole (next_version_path).
THEOREM NumbersStayUnique == ASSUME InTurn PROVE Spec => []NumbersAreUnique
<1>1. UndeletedInv => NumbersAreUnique
  BY DEF UndeletedInv, Inv, UniqueNumbers, NumbersAreUnique
<1> QED
  BY <1>1, InvCorrect, PTL

\* So a reader that keeps to the number of the version it first got never gets
\* another model under it, whatever versions are deleted, fail and are
\* converted in between (resolve, remove_version, next_version_path).
THEOREM PinnedReadersAreSafe == ASSUME InTurn PROVE Spec => []PinnedReadsOneModel
<1>1. UndeletedInv => PinnedReadsOneModel
  <2> SUFFICES ASSUME Inv, NEW r \in Readers, reader[r].number # 0,
                      At(reader[r].number) # Absent
               PROVE  At(reader[r].number).by = reader[r].got
    BY DEF UndeletedInv, PinnedReadsOneModel
  <2> DEFINE n == reader[r].number
  <2>1. n \in Numbers
    BY MaxNumberAssumption DEF Inv, TypeInv, TypeOK, Numbers
  <2>2. \/ reader[r].got \in Convs /\ conv[reader[r].got].number = n
        \/ reader[r].got = Legacy /\ HasFlat /\ n = 1
    BY DEF Inv, ReadersGotTheirs
  <2>3. CASE AtFlat(n)
    <3>1. n = 1 /\ HasFlat /\ At(n).by = Legacy
      BY <2>3 DEF At, AtFlat, Inv, FlatIsLegacy
    <3> QED
      BY <2>2, <3>1 DEF Inv, OneIsTheFlats
  <2>4. CASE ~AtFlat(n)
    <3>1. At(n).by \in Convs /\ conv[At(n).by].number = n
      BY <2>1, <2>4 DEF At, Inv, FilesAreNumbered
    <3> QED
      BY <2>2, <3>1 DEF Inv, UniqueNumbers, OneIsTheFlats
  <2> QED
    BY <2>3, <2>4
<1> QED
  BY <1>1, InvCorrect, PTL

\* A version that landed is there, all of it, until somebody deletes it
\* (follow, remove_version).
THEOREM LandedStays == ASSUME InTurn PROVE Spec => []LandedIsThere
<1>1. UndeletedInv => LandedIsThere
  <2> SUFFICES ASSUME Inv, NEW c \in Convs, conv[c].at = "done", c \notin deleted
               PROVE  At(conv[c].number) = [by |-> c, whole |-> TRUE]
    BY DEF UndeletedInv, LandedIsThere
  <2>1. file[conv[c].number] = [by |-> c, whole |-> TRUE]
    BY DEF Inv, WrittenStays
  <2>2. file[conv[c].number].whole
    BY <2>1
  <2>3. file[conv[c].number] # Absent
    BY <2>2, AbsentFacts
  <2> QED
    BY <2>1, <2>3 DEF At, AtFlat
<1> QED
  BY <1>1, InvCorrect, PTL

-----------------------------------------------------------------------------
(* A scene deleted as a whole, for any requests, waiting for nothing.       *)

\* While the flat file is there, nobody is handed its number.
FlatIsFirst ==
    flat # Absent =>
      /\ file[1] = Absent
      /\ \A c \in Convs : /\ conv[c].number # 1
                          /\ conv[c].at = "listed" => conv[c].present # 0

\* So a request that deletes the scene has the flat file among what is left ...
FlatIsLeft ==
    \A s \in SceneDeletes :
      /\ sdel[s].at = "removing" => flat = Absent \/ (1 \in sdel[s].left /\ sdel[s].flat)
      /\ sdel[s].at \in {"erasing", "emptied", "removed"} => flat = Absent

\* ... what is in the directory was listed, or has disturbed the removal ...
Fresh(s) == fresh[s] # {} \/ s \in disturbed

DirectoryIsListed ==
    \A s \in SceneDeletes : sdel[s].at = "erasing" /\ ~Fresh(s) => Entries \subseteq sdel[s].left

\* ... and nothing comes back after it but by an upload since, for a converter
\* makes no directory.
NothingComesBack ==
    \A s \in SceneDeletes : sdel[s].at \in {"emptied", "removed"} /\ ~Fresh(s) =>
      ~dir /\ Entries = {}

DeletionInv ==
    TypeInv /\ FlatIsFirst /\ FlatIsLeft /\ DirectoryIsListed /\ NothingComesBack

LEMMA OneIsANumber == 1 \in Numbers
BY MaxNumberAssumption DEF Numbers

LEMMA DeletionInit == Init => DeletionInv
<1> SUFFICES ASSUME Init PROVE DeletionInv
  OBVIOUS
<1>1. /\ \A c \in Convs : conv[c] = [at |-> "idle", present |-> 0, number |-> 0]
      /\ file[1] = Absent
      /\ \A s \in SceneDeletes : sdel[s].at = "idle"
  BY OneIsANumber DEF Init
<1>2. TypeInv
  BY <1>1, TypeInit DEF Init, TypeInv, DeletesANumber, RemovesNumbers
<1> QED
  BY <1>1, <1>2 DEF DeletionInv, FlatIsFirst, FlatIsLeft, DirectoryIsListed, NothingComesBack

\* Where nothing is put into the directory, nothing comes back.
LEMMA FewerEntriesKeep ==
  ASSUME DeletionInv, Entries' \subseteq Entries, UNCHANGED <<dir, sdel, fresh, disturbed>>
  PROVE  DirectoryIsListed' /\ NothingComesBack'
BY DEF DeletionInv, DirectoryIsListed, NothingComesBack, Fresh

\* What is put there disturbs a removal under way, and needs the directory.
LEMMA MoreEntriesKeep ==
  ASSUME DeletionInv, dir, Disturbs, UNCHANGED <<dir, sdel, fresh>>
  PROVE  DirectoryIsListed' /\ NothingComesBack'
<1>1. /\ \A s \in SceneDeletes : sdel[s].at = "erasing" => s \in disturbed'
      /\ disturbed \subseteq disturbed'
  BY DEF Disturbs
<1> QED
  BY <1>1 DEF DeletionInv, DirectoryIsListed, NothingComesBack, Fresh

\* No conversion makes a file where there is no directory, or at the place of
\* the flat file.
LEMMA ConversionKeepsDeletion ==
  ASSUME DeletionInv, TypeInv', NEW c \in Convs, Conversion(c) PROVE DeletionInv'
<1> USE DEF DeletionInv
<1>1. CASE MakeDirectory(c)
  <2>1. Goes(c, "made") /\ \A s \in SceneDeletes : fresh'[s] # {}
    BY <1>1 DEF MakeDirectory
  <2>2. /\ conv'[c].at = "made"
        /\ \A o \in Convs \ {c} : conv'[o] = conv[o]
        /\ \A o \in Convs : conv'[o].number = conv[o].number
    BY <2>1, GoesFacts DEF TypeInv
  <2>3. FlatIsFirst' /\ FlatIsLeft'
    BY <1>1, <2>2 DEF MakeDirectory, FlatIsFirst, FlatIsLeft
  <2>4. DirectoryIsListed' /\ NothingComesBack'
    BY <2>1 DEF DirectoryIsListed, NothingComesBack, Fresh
  <2> QED
    BY <2>3, <2>4
<1>2. CASE ListPresent(c) \/ ReadMark(c)
  <2>1. UNCHANGED <<flat, dir, file, marked, sdel, fresh, disturbed>>
    BY <1>2 DEF ListPresent, ReadMark, disk, last, history
  <2>2. FlatIsLeft' /\ DirectoryIsListed' /\ NothingComesBack'
    BY <2>1, FewerEntriesKeep DEF FlatIsLeft, Entries
  <2>3. conv \in [Convs -> ConvState] /\ conv[c] \in ConvState
    BY ConvFacts DEF TypeInv
  <2>4. ASSUME ListPresent(c) PROVE FlatIsFirst'
    <3>1. conv' = [conv EXCEPT ![c] = [conv[c] EXCEPT !.at = "listed", !.present = Newest]]
      BY <2>4 DEF ListPresent
    <3>2. /\ [conv[c] EXCEPT !.at = "listed", !.present = Newest].present = Newest
          /\ [conv[c] EXCEPT !.at = "listed", !.present = Newest].number = conv[c].number
      BY <2>3 DEF ConvState
    <3>3. /\ conv'[c].present = Newest /\ conv'[c].number = conv[c].number
          /\ \A o \in Convs \ {c} : conv'[o] = conv[o]
      BY <2>3, <3>1, <3>2
    <3>4. flat # Absent => Newest # 0
      <4> SUFFICES ASSUME flat # Absent PROVE Newest # 0
        OBVIOUS
      <4>1. 1 \in Held
        BY OneIsANumber DEF Held, At, AtFlat, FlatIsFirst
      <4> QED
        BY <4>1, NewestFacts DEF Held, Numbers
    <3> QED
      BY <2>1, <3>3, <3>4 DEF FlatIsFirst
  <2>5. ASSUME ReadMark(c) PROVE FlatIsFirst'
    <3> DEFINE n == NextNumber(c)
               m == Max({conv[c].present, mark})
    <3>1. conv' = [conv EXCEPT ![c] = [at |-> "numbered", present |-> 0, number |-> n]]
      BY <2>5 DEF ReadMark
    <3>2. conv[c].present \in Nat /\ mark \in Nat
      BY NumbersAreNaturals DEF TypeInv
    <3>3. m \in Nat /\ m >= conv[c].present /\ n = m + 1
      BY <3>2, HigherOfTwo DEF NextNumber
    <3> HIDE DEF m, n
    <3>4. /\ [at |-> "numbered", present |-> 0, number |-> n].at = "numbered"
          /\ [at |-> "numbered", present |-> 0, number |-> n].number = n
      BY <2>3 DEF ConvState
    <3>5. /\ conv'[c].at = "numbered" /\ conv'[c].number = n
          /\ \A o \in Convs \ {c} : conv'[o] = conv[o]
      BY <2>3, <3>1, <3>4
    <3>6. conv[c].present # 0 => n # 1
      BY <3>2, <3>3
    <3> QED
      BY <2>1, <2>5, <3>5, <3>6 DEF FlatIsFirst, ReadMark
  <2> QED
    BY <1>2, <2>2, <2>4, <2>5
<1>3. CASE \E to \in Settled :
             Goes(c, to) /\ UNCHANGED <<flat, dir, file, marked, sdel, fresh, disturbed>>
  <2>1. PICK to \in Settled :
          Goes(c, to) /\ UNCHANGED <<flat, dir, file, marked, sdel, fresh, disturbed>>
    BY <1>3
  <2>2. /\ conv'[c].at = to /\ to # "listed"
        /\ \A o \in Convs \ {c} : conv'[o] = conv[o]
        /\ \A o \in Convs : conv'[o].number = conv[o].number
    BY <2>1, GoesFacts DEF TypeInv, Settled
  <2>3. FlatIsFirst' /\ FlatIsLeft'
    BY <2>1, <2>2 DEF FlatIsFirst, FlatIsLeft
  <2> QED
    BY <2>1, <2>3, FewerEntriesKeep DEF Entries
<1>4. CASE EmptyMark(c) \/ Create(c) \/ Complete(c) \/ Cancel(c)
  <2>1. PICK to \in Settled \union {"marking"} : Goes(c, to)
    BY <1>4 DEF EmptyMark, Create, Complete, Cancel, Settled
  <2>2. /\ conv'[c].at = to /\ to # "listed"
        /\ \A o \in Convs \ {c} : conv'[o] = conv[o]
        /\ \A o \in Convs : conv'[o].number = conv[o].number
    BY <2>1, GoesFacts DEF TypeInv, Settled
  <2>3. UNCHANGED <<flat, dir, sdel, fresh>>
    BY <1>4 DEF EmptyMark, Create, Complete, Cancel, history
  <2>4. \A n \in Numbers : n # conv[c].number => file'[n] = file[n]
    BY <1>4 DEF EmptyMark, Create, Complete, Cancel, Cleaned, TypeInv, TypeOK
  <2>5. FlatIsFirst' /\ FlatIsLeft'
    BY <2>2, <2>3, <2>4, OneIsANumber DEF FlatIsFirst, FlatIsLeft
  <2>6. CASE EmptyMark(c) \/ Create(c)
    BY <2>3, <2>5, <2>6, MoreEntriesKeep DEF EmptyMark, Create
  <2>7. CASE Complete(c) \/ Cancel(c)
    <3>1. ASSUME NEW n \in Numbers, file[n] = Absent PROVE file'[n] = Absent
      <4>1. CASE n # conv[c].number
        BY <2>4, <3>1, <4>1
      <4>2. CASE n = conv[c].number /\ Cancel(c)
        BY <4>2 DEF Cancel, Cleaned, TypeInv, TypeOK
      <4>3. CASE n = conv[c].number /\ Complete(c)
        <5>1. file'[n] = [file[n] EXCEPT !.whole = @ \/ file[n].by = c]
          BY <4>3 DEF Complete, TypeInv, TypeOK
        <5>2. (file[n].whole \/ file[n].by = c) = FALSE
          BY <3>1, AbsentFacts, ConvsAssumption
        <5>3. [file[n] EXCEPT !.whole = FALSE] = Absent
          BY <3>1, WholeFacts, AbsentFacts DEF Absent
        <5> QED
          BY <5>1, <5>2, <5>3
      <4> QED
        BY <2>7, <4>1, <4>2, <4>3
    <3>2. Entries' \subseteq Entries /\ disturbed' = disturbed
      BY <2>7, <3>1 DEF Entries, Complete, Cancel, last, history
    <3> QED
      BY <2>3, <2>5, <3>2, FewerEntriesKeep
  <2> QED
    BY <1>4, <2>6, <2>7
<1>5. WriteMark(c) \/ MarkFails(c) \/ Begin(c) \/ Skip(c) \/ Land(c) \/ ForgetPreview(c) \/ Fail(c) =>
        \E to \in Settled :
          Goes(c, to) /\ UNCHANGED <<flat, dir, file, marked, sdel, fresh, disturbed>>
  BY DEF WriteMark, MarkFails, Begin, Skip, Land, ForgetPreview, Fail, Settled, disk, last, history
<1> QED
  BY <1>1, <1>2, <1>3, <1>4, <1>5 DEF Conversion

LEMMA UnlinkKeepsDeletion ==
  ASSUME DeletionInv, TypeInv', NEW n \in Numbers, NEW isFlat \in BOOLEAN, Unlink(n, isFlat),
         UNCHANGED <<dir, marked, conv, fresh, disturbed>>,
         \A s \in SceneDeletes :
           /\ sdel'[s].at = "removing" =>
                /\ sdel[s].at = "removing" /\ sdel'[s].flat = sdel[s].flat
                /\ sdel'[s].left = sdel[s].left
                   \/ (sdel'[s].left = sdel[s].left \ {n} /\ (isFlat <=> n = 1 /\ sdel[s].flat))
           /\ sdel'[s].at \in {"erasing", "emptied", "removed"} =>
                sdel'[s].at = sdel[s].at /\ sdel'[s].left = sdel[s].left
  PROVE  DeletionInv'
<1> USE DEF DeletionInv
<1>1. /\ flat' = flat \/ flat' = Absent
      /\ isFlat => flat' = Absent
      /\ \A m \in Numbers : file'[m] = file[m] \/ file'[m] = Absent
  BY DEF Unlink, TypeInv, TypeOK
<1>2. FlatIsFirst'
  BY <1>1, OneIsANumber DEF FlatIsFirst
<1>3. FlatIsLeft'
  BY <1>1 DEF FlatIsLeft
<1>4. Entries' \subseteq Entries
  BY <1>1 DEF Entries
<1>5. DirectoryIsListed' /\ NothingComesBack'
  BY <1>4 DEF DirectoryIsListed, NothingComesBack, Fresh
<1> QED
  BY <1>2, <1>3, <1>5

LEMMA SceneDeleteKeepsDeletion ==
  ASSUME DeletionInv, TypeInv', NEW s \in SceneDeletes, SceneDeleting(s) PROVE DeletionInv'
<1> USE DEF DeletionInv
<1>1. /\ sdel \in [SceneDeletes -> SceneDeleter]
      /\ \A o \in SceneDeletes \ {s} : sdel'[o] = sdel[o]
  BY SceneDeleteMoves DEF TypeInv, TypeOK, SceneDeleter
<1>2. CASE ListScene(s)
  <2>1. /\ sdel'[s] = [at |-> "removing", left |-> Held, flat |-> AtFlat(1)]
        /\ \A o \in SceneDeletes \ {s} : fresh'[o] = fresh[o]
        /\ UNCHANGED <<flat, dir, file, marked, conv, disturbed>>
    BY <1>2, SceneDeleteMoves DEF ListScene, disk, last, TypeInv, TypeOK
  <2>2. sdel'[s].at = "removing" /\ sdel'[s].left = Held /\ sdel'[s].flat = AtFlat(1)
    BY <2>1
  <2>3. flat # Absent => 1 \in Held /\ AtFlat(1)
    BY OneIsANumber DEF FlatIsFirst, Held, At, AtFlat
  <2>4. FlatIsFirst' /\ DirectoryIsListed' /\ NothingComesBack'
    BY <1>1, <2>1, <2>2 DEF FlatIsFirst, DirectoryIsListed, NothingComesBack, Fresh, Entries
  <2>5. FlatIsLeft'
    BY <1>1, <2>1, <2>2, <2>3 DEF FlatIsLeft
  <2> QED
    BY <2>4, <2>5
<1>3. CASE RemoveNext(s)
  <2> DEFINE n == Min(sdel[s].left)
             isFlat == n = 1 /\ sdel[s].flat
             v == IF There(n, isFlat) = Absent THEN Finished("ended") ELSE [sdel[s] EXCEPT !.left = @ \ {n}]
  <2>1. sdel[s].left # {} /\ sdel[s].left \subseteq Numbers /\ sdel[s].at = "removing"
    BY <1>3 DEF RemoveNext, TypeInv, RemovesNumbers
  <2>2. n \in Numbers
    BY <2>1, LowestIsOne
  <2>3. /\ Unlink(n, isFlat) /\ UNCHANGED <<dir, marked, conv, fresh, disturbed>>
        /\ sdel' = [sdel EXCEPT ![s] = v]
    BY <1>3 DEF RemoveNext, last
  <2>4. isFlat \in BOOLEAN /\ (isFlat <=> n = 1 /\ sdel[s].flat)
    BY <1>1 DEF SceneDeleter
  <2>5. sdel'[s] = v
    BY <1>1, <2>3
  <2> HIDE DEF n, isFlat
  <2>6. /\ [sdel[s] EXCEPT !.left = @ \ {n}].at = "removing"
        /\ [sdel[s] EXCEPT !.left = @ \ {n}].left = sdel[s].left \ {n}
        /\ [sdel[s] EXCEPT !.left = @ \ {n}].flat = sdel[s].flat
        /\ Finished("ended").at = "ended"
    BY <1>1, <2>1 DEF SceneDeleter, Finished
  <2>7. \/ sdel'[s].at = "ended"
        \/ /\ sdel'[s].at = "removing" /\ sdel'[s].left = sdel[s].left \ {n}
           /\ sdel'[s].flat = sdel[s].flat
    BY <2>5, <2>6
  <2> QED
    <3>1. \A o \in SceneDeletes :
            /\ sdel'[o].at = "removing" =>
                 /\ sdel[o].at = "removing" /\ sdel'[o].flat = sdel[o].flat
                 /\ sdel'[o].left = sdel[o].left
                    \/ (sdel'[o].left = sdel[o].left \ {n} /\ (isFlat <=> n = 1 /\ sdel[o].flat))
            /\ sdel'[o].at \in {"erasing", "emptied", "removed"} =>
                 sdel'[o].at = sdel[o].at /\ sdel'[o].left = sdel[o].left
      BY <1>1, <2>1, <2>4, <2>7
    <3>2. /\ isFlat \in BOOLEAN /\ Unlink(n, isFlat)
          /\ UNCHANGED <<dir, marked, conv, fresh, disturbed>>
      BY <2>3, <2>4
    <3> QED
      BY <2>2, <3>1, <3>2, UnlinkKeepsDeletion
<1>4. CASE ListDirectory(s)
  <2>1. /\ sdel'[s] = [at |-> "erasing", left |-> Entries, flat |-> FALSE]
        /\ UNCHANGED <<flat, dir, file, marked, conv, fresh, disturbed>>
    BY <1>4, SceneDeleteMoves DEF ListDirectory, disk, last, history
  <2>2. sdel'[s].at = "erasing" /\ sdel'[s].left = Entries /\ Entries' = Entries
    BY <2>1 DEF Entries
  <2>3. flat = Absent
    BY <1>4 DEF ListDirectory, FlatIsLeft
  <2>4. FlatIsFirst' /\ FlatIsLeft'
    BY <1>1, <2>1, <2>2, <2>3 DEF FlatIsFirst, FlatIsLeft
  <2>5. DirectoryIsListed' /\ NothingComesBack'
    BY <1>1, <2>1, <2>2 DEF DirectoryIsListed, NothingComesBack, Fresh
  <2> QED
    BY <2>4, <2>5
<1>5. CASE Erase(s)
  <2>1. PICK e \in Entries :
          /\ IF e = 0 THEN marked' = FALSE /\ UNCHANGED file
                      ELSE file' = [file EXCEPT ![e] = Absent] /\ UNCHANGED marked
          /\ sdel' = [sdel EXCEPT ![s].left = @ \ {e}]
    BY <1>5 DEF Erase, last
  <2>2. /\ sdel[s].at = "erasing" /\ sdel'[s].at = "erasing" /\ sdel'[s].left = sdel[s].left \ {e}
        /\ UNCHANGED <<flat, dir, conv, fresh, disturbed>>
    BY <1>5, <2>1, SceneDeleteMoves DEF Erase
  <2>3. /\ Entries' \subseteq Entries \ {e}
        /\ \A n \in Numbers : file'[n] = file[n] \/ file'[n] = Absent
    BY <2>1, AbsentFacts DEF Entries, TypeInv, TypeOK, Numbers
  <2>4. FlatIsFirst' /\ FlatIsLeft'
    BY <1>1, <2>2, <2>3, OneIsANumber DEF FlatIsFirst, FlatIsLeft
  <2>5. DirectoryIsListed' /\ NothingComesBack'
    BY <1>1, <2>2, <2>3 DEF DirectoryIsListed, NothingComesBack, Fresh
  <2> QED
    BY <2>4, <2>5
<1>6. CASE RemoveDirectory(s)
  <2>1. /\ sdel[s].at = "erasing" /\ sdel'[s].at = "emptied" /\ sdel[s].left \intersect Entries = {}
        /\ dir' = (dir /\ Entries # {})
        /\ UNCHANGED <<flat, file, marked, conv, fresh, disturbed>>
    BY <1>6, SceneDeleteMoves DEF RemoveDirectory, Erased, last, history
  <2>2. Entries' = Entries
    BY <2>1 DEF Entries
  <2>3. ~Fresh(s) => Entries = {} /\ dir' = FALSE
    BY <2>1 DEF DirectoryIsListed
  <2>4. FlatIsFirst' /\ FlatIsLeft'
    BY <1>1, <2>1 DEF FlatIsFirst, FlatIsLeft
  <2>5. DirectoryIsListed' /\ NothingComesBack'
    BY <1>1, <2>1, <2>2, <2>3 DEF DirectoryIsListed, NothingComesBack, Fresh
  <2> QED
    BY <2>4, <2>5
<1>7. CASE VersionFails(s) \/ DirectoryFails(s)
  <2>1. /\ \/ sdel'[s].at = "ended"
           \/ sdel'[s].at = "emptied" /\ s \in disturbed'
                /\ (sdel[s].at = "erasing" \/ (sdel[s].at = "removing" /\ sdel[s].left = {}))
        /\ disturbed \subseteq disturbed'
        /\ UNCHANGED <<flat, dir, file, marked, conv, fresh>>
    BY <1>7, SceneDeleteMoves DEF VersionFails, DirectoryFails, disk, last, history
  <2>2. Entries' = Entries
    BY <2>1 DEF Entries
  <2>3. FlatIsFirst' /\ FlatIsLeft'
    BY <1>1, <2>1 DEF FlatIsFirst, FlatIsLeft
  <2>4. DirectoryIsListed' /\ NothingComesBack'
    BY <1>1, <2>1, <2>2 DEF DirectoryIsListed, NothingComesBack, Fresh
  <2> QED
    BY <2>3, <2>4
<1>8. CASE RemovePreview(s)
  <2>1. /\ sdel[s].at = "emptied" /\ sdel'[s].at = "removed"
        /\ UNCHANGED <<flat, dir, file, marked, conv, fresh, disturbed>>
    BY <1>8, SceneDeleteMoves DEF RemovePreview, disk, last, history
  <2>2. FlatIsFirst' /\ FlatIsLeft'
    BY <1>1, <2>1 DEF FlatIsFirst, FlatIsLeft
  <2>3. DirectoryIsListed' /\ NothingComesBack'
    BY <1>1, <2>1 DEF DirectoryIsListed, NothingComesBack, Fresh, Entries
  <2> QED
    BY <2>2, <2>3
<1> QED
  BY <1>2, <1>3, <1>4, <1>5, <1>6, <1>7, <1>8 DEF SceneDeleting

LEMMA DeletionStep == DeletionInv /\ [Next]_vars => DeletionInv'
<1> SUFFICES ASSUME DeletionInv, [Next]_vars PROVE DeletionInv'
  OBVIOUS
<1>1. TypeInv'
  BY TypeStep DEF DeletionInv
<1>2. ASSUME NEW c \in Convs, Conversion(c) PROVE DeletionInv'
  BY <1>1, <1>2, ConversionKeepsDeletion
<1>3. ASSUME NEW s \in SceneDeletes, SceneDeleting(s) PROVE DeletionInv'
  BY <1>1, <1>3, SceneDeleteKeepsDeletion
<1>4. ASSUME NEW d \in VersionDeletes, RemoveVersion(d) PROVE DeletionInv'
  <2>1. /\ vdel[d].number \in Numbers /\ vdel[d].flat \in BOOLEAN
        /\ Unlink(vdel[d].number, vdel[d].flat)
        /\ UNCHANGED <<dir, marked, conv, sdel, fresh, disturbed>>
    BY <1>4 DEF RemoveVersion, last, DeletionInv, TypeInv, TypeOK, DeletesANumber
  <2> QED
    BY <1>1, <2>1, UnlinkKeepsDeletion
<1>5. ASSUME UNCHANGED <<flat, dir, file, marked, conv, sdel, fresh, disturbed>> PROVE DeletionInv'
  <2>1. Entries' = Entries
    BY <1>5 DEF Entries
  <2> QED
    BY <1>1, <1>5, <2>1 DEF DeletionInv, FlatIsFirst, FlatIsLeft, DirectoryIsListed, NothingComesBack, Fresh
<1> QED
  BY <1>2, <1>3, <1>4, <1>5 DEF Next, SceneDeleting, ListVersions, ForgetRemoved, CheckScene,
     StorePreview, Open, disk, last, history, vars

\* A scene that was deleted stays deleted until it is uploaded again, whoever
\* uploads, converts and deletes at once, and also where marks fail, unless the
\* removal of its directory failed or a file was created there meanwhile
\* (remove).
THEOREM DeletionIsFinal == Spec => []DeletedStaysDeleted
<1>1. Spec => []DeletionInv
  BY DeletionInit, DeletionStep, PTL DEF Spec
<1>2. DeletionInv => DeletedStaysDeleted
  <2> SUFFICES ASSUME DeletionInv, NEW s \in SceneDeletes, sdel[s].at = "removed", ~Fresh(s)
               PROVE  Held = {}
    BY DEF DeletedStaysDeleted, Fresh
  <2>1. flat = Absent /\ \A n \in Numbers : file[n] = Absent
    BY DEF DeletionInv, FlatIsLeft, NothingComesBack, Entries
  <2> QED
    BY <2>1 DEF Held, At, AtFlat
<1> QED
  BY <1>1, <1>2, PTL
=============================================================================

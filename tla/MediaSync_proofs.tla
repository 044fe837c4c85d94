-------------------------- MODULE MediaSync_proofs --------------------------
(***************************************************************************)
(* Proofs about MediaSync, for any titles, files and identities, any       *)
(* library that counts as small and any number of events.                  *)
(***************************************************************************)
EXTENDS MediaSync, FiniteSetTheorems, WellFoundedInduction, TLAPS

(***************************************************************************)
(* The rows of versions: ids up to some number, each with a file of its own.*)
(***************************************************************************)
VersionInv ==
  /\ DOMAIN version \subseteq Nat \ {Null}
  /\ version \in [DOMAIN version -> File]
  /\ \E b \in Nat : \A i \in DOMAIN version : i <= b
  /\ \A i, k \in DOMAIN version : version[i] = version[k] => i = k

(***************************************************************************)
(* A candidate sits on the version row of its file, or is parked with that *)
(* file's identity.                                                        *)
(***************************************************************************)
Sitting ==
  {c \in DOMAIN cand \ DOMAIN candFile :
     /\ cand[c].version \in DOMAIN version
     /\ cand[c].title = Movie(cand[c].version)
     /\ home[c] = version[cand[c].version]}

Parked ==
  {c \in DOMAIN cand \cap DOMAIN candFile :
     /\ home[c] \in File
     /\ cand[c] = NoTarget
     /\ candFile[c] = [title |-> TitleOf[home[c]], file |-> home[c]]}

\* No title has candidates of both kinds: the scan and the restoration see to it.
Apart == \A c \in Parked, d \in Sitting : TitleOf[home[c]] # TitleOf[home[d]]

CandInv ==
  /\ DOMAIN cand \subseteq CandidateId /\ DOMAIN candFile \subseteq DOMAIN cand
  /\ DOMAIN cand = Sitting \cup Parked
  /\ home \in [CandidateId -> File \cup {Null}]
  /\ OneCandidatePerFile
  /\ Apart

RequestRow == [title : Title, version : Nat, scope : {"movie_version", "none"}]

RequestInv ==
  /\ DOMAIN request \subseteq RequestId /\ DOMAIN reqFile \subseteq DOMAIN request
  /\ request \in [DOMAIN request -> RequestRow]
  /\ \A r \in DOMAIN request :
       IF request[r].version = Null
       THEN request[r].scope = "movie_version" /\ r \in DOMAIN reqFile \cup late
       ELSE request[r].version \in DOMAIN version

(***************************************************************************)
(* What a task has read: the candidates and requests a resync is about to  *)
(* detach are attached, or gone by now; a run that found nothing knows all *)
(* titles there are; and a proposal is what the guard was last asked about.*)
(***************************************************************************)
Detaching == [at : {"detaching"}, cands : SUBSET CandidateId, reqs : SUBSET RequestId]
Starting == [at : {"starting"}, resync : BOOLEAN]
Syncing ==
  [at : {"upserting", "restoring", "emptied"}, resync : BOOLEAN,
   inventory : SUBSET File, known : SUBSET Title, todo : SUBSET Title]

TaskInv ==
  /\ task \in {Idle} \cup Detaching \cup Starting \cup Syncing
  /\ task \in Detaching =>
       /\ \A c \in task.cands \cap DOMAIN cand : c \in Attached
       /\ \A r \in task.reqs \cap DOMAIN request : request[r].version # Null
  /\ task.at = "emptied" => Live \subseteq task.known

GuardInv ==
  /\ proposal \subseteq Title
  /\ proposal \in {NoProposal, missing}

Inv ==
  /\ listed \subseteq File
  /\ title \in [Title -> {"absent", "live", "removed"}]
  /\ VersionInv /\ CandInv /\ RequestInv /\ TaskInv /\ GuardInv

-----------------------------------------------------------------------------
(***************************************************************************)
(* The least and the greatest of a set of row ids.                         *)
(***************************************************************************)
LEMMA LeastExists ==
  ASSUME NEW S, S \subseteq Nat, S # {}
  PROVE  \E x \in S : \A y \in S : x <= y
<1> DEFINE R == OpToRel(<, Nat)
<1>1. \A x, y \in Nat : <<y, x>> \in R <=> y < x
  BY DEF OpToRel
<1>2. IsWellFoundedOn(R, Nat)
  BY NatLessThanWellFounded
<1> HIDE DEF R
<1>3. PICK x \in S : \A y \in S : ~(<<y, x>> \in R)
  BY <1>2, WFMin
<1>4. ASSUME NEW y \in S PROVE x <= y
  <2>1. x \in Nat /\ y \in Nat /\ ~(<<y, x>> \in R)
    BY <1>3
  <2>2. ~(y < x)
    BY <1>1, <2>1
  <2> QED BY <2>1, <2>2
<1> QED BY <1>4

LEMMA MinIsIn ==
  ASSUME NEW S, S \subseteq Nat, S # {}
  PROVE  Min(S) \in S
BY LeastExists DEF Min

LEMMA MaxIsIn ==
  ASSUME NEW S, S \subseteq Nat, S # {}, NEW b \in Nat, \A i \in S : i <= b
  PROVE  Max(S) \in S
<1> DEFINE T == {b - i : i \in S}
<1>1. T \subseteq Nat /\ T # {}
  <2>1. \A i \in S : b - i \in Nat
    OBVIOUS
  <2>2. PICK i \in S : TRUE
    OBVIOUS
  <2>3. b - i \in T
    BY <2>2
  <2> QED BY <2>1, <2>3
<1>2. PICK x \in T : \A y \in T : x <= y
  BY <1>1, LeastExists
<1>3. PICK m \in S : x = b - m
  BY <1>2
<1>4. ASSUME NEW i \in S PROVE m >= i
  <2>1. m \in Nat /\ i \in Nat
    OBVIOUS
  <2>2. b - m <= b - i
    BY <1>2, <1>3
  <2> QED
    BY <2>1, <2>2
<1> QED BY <1>3, <1>4 DEF Max

-----------------------------------------------------------------------------
(***************************************************************************)
(* Steps that leave the versions alone.                                    *)
(***************************************************************************)
\* What sits is what is attached.
LEMMA Attachment ==
  ASSUME VersionInv, CandInv
  PROVE  /\ Attached = Sitting
         /\ Sitting \cap Parked = {}
         /\ \A c \in Parked : cand[c].version = Null /\ cand[c].title = Null
<1>1. \A c \in Parked : cand[c].version = Null /\ cand[c].title = Null
  BY DEF Parked, NoTarget
<1>2. \A c \in Sitting : cand[c].version # Null
  BY DEF Sitting, VersionInv
<1>3. DOMAIN cand = Sitting \cup Parked
  BY DEF CandInv
<1> QED BY <1>1, <1>2, <1>3 DEF Attached, Sitting

\* Candidates may go at any time, with their identities.
LEMMA SomeGo ==
  ASSUME VersionInv, CandInv, UNCHANGED <<version, home>>, NEW D,
         DOMAIN cand' = DOMAIN cand \ D,
         \A c \in DOMAIN cand' : cand'[c] = cand[c],
         DOMAIN candFile' = DOMAIN candFile \ D,
         \A c \in DOMAIN candFile' : candFile'[c] = candFile[c]
  PROVE  CandInv'
<1>1. \A c \in DOMAIN cand' : c \in Sitting => c \in Sitting'
  BY DEF Sitting, Movie
<1>2. \A c \in DOMAIN cand' : c \in Parked => c \in Parked'
  BY DEF Parked
<1>3. Sitting' \subseteq Sitting /\ Parked' \subseteq Parked
  BY DEF Sitting, Parked, Movie
<1>4. DOMAIN cand' = Sitting' \cup Parked'
  BY <1>1, <1>2 DEF CandInv, Sitting, Parked
<1>5. Apart'
  BY <1>3 DEF CandInv, Apart
<1>6. OneCandidatePerFile'
  BY DEF CandInv, OneCandidatePerFile
<1> QED BY <1>4, <1>5, <1>6 DEF CandInv

\* The same with nothing gone.
LEMMA NoneGo ==
  ASSUME VersionInv, CandInv, UNCHANGED <<version, home, cand, candFile>>
  PROVE  CandInv'
BY SomeGo, DOMAIN cand \ {} = DOMAIN cand, DOMAIN candFile \ {} = DOMAIN candFile

\* A restoration gives every candidate of a title back its row, or drops it.
LEMMA RestoredCandidates ==
  ASSUME VersionInv, CandInv, UNCHANGED <<version, home>>,
         NEW S, NEW rows, NEW cands, NEW ids, Restored(S, rows, cands, ids),
         DOMAIN cands \subseteq DOMAIN cand,
         \A c \in DOMAIN cands : cands[c] = cand[c],
         DOMAIN ids = DOMAIN candFile \cap DOMAIN cands,
         \A c \in DOMAIN ids : ids[c] = candFile[c]
  PROVE  CandInv'
<1> DEFINE due == Due(S, ids, rows)
           found == {c \in due : Rebuilt(ids[c], rows) # {}}
<1>1. /\ cand' = [c \in DOMAIN cands \ (due \ found) |->
            IF c \in found
            THEN [title |-> ids[c].title, version |-> Min(Rebuilt(ids[c], rows))]
            ELSE cands[c]]
      /\ candFile' = Without(ids, due)
  BY DEF Restored
<1>2. due = {c \in DOMAIN ids : ids[c].title \in S}
  BY DEF Due
<1>3. ASSUME NEW c \in DOMAIN ids
      PROVE  /\ c \in Parked /\ ids[c].title = TitleOf[home[c]]
             /\ ids[c].file = home[c]
  <2>1. c \in DOMAIN candFile /\ c \in DOMAIN cand
    OBVIOUS
  <2>2. c \in Parked
    BY <2>1 DEF CandInv, Sitting
  <2> QED BY <2>1, <2>2 DEF Parked
<1>4. ASSUME NEW c \in found
      PROVE  c \in Sitting' /\ TitleOf[home[c]] \in S
  <2> DEFINE i == Min(Rebuilt(ids[c], rows))
  <2>1. c \in DOMAIN ids /\ c \in due /\ Rebuilt(ids[c], rows) # {}
    BY <1>2
  <2>2. Rebuilt(ids[c], rows) \subseteq {k \in DOMAIN version : version[k] = ids[c].file}
    BY DEF Rebuilt, Candidates
  <2>3. Rebuilt(ids[c], rows) \subseteq Nat
    BY <2>2 DEF VersionInv
  <2>4. i \in Rebuilt(ids[c], rows)
    BY <2>1, <2>3, MinIsIn
  <2>5. i \in DOMAIN version /\ version[i] = home[c]
    BY <2>1, <2>2, <2>4, <1>3
  <2>6. c \in DOMAIN cand' /\ cand'[c] = [title |-> TitleOf[home[c]], version |-> i]
    BY <1>1, <1>3, <2>1
  <2>7. c \notin DOMAIN candFile'
    BY <1>1, <2>1 DEF Without
  <2>8. TitleOf[home[c]] \in S
    BY <1>2, <1>3, <2>1
  <2> HIDE DEF i
  <2> QED BY <2>5, <2>6, <2>7, <2>8 DEF Sitting, Movie
<1>5. ASSUME NEW c \in DOMAIN cand', c \notin found
      PROVE  /\ c \in Sitting => c \in Sitting'
             /\ c \in Parked => c \in Parked' /\ TitleOf[home[c]] \notin S
  <2>1. c \in DOMAIN cands /\ c \notin due /\ cand'[c] = cand[c]
    BY <1>1, <1>5
  <2>2. DOMAIN candFile' = DOMAIN ids \ due /\ \A d \in DOMAIN candFile' : candFile'[d] = ids[d]
    BY <1>1 DEF Without
  <2>3. c \in Sitting => c \in Sitting'
    BY <2>1, <2>2 DEF Sitting, Movie
  <2>4. ASSUME c \in Parked PROVE c \in Parked' /\ TitleOf[home[c]] \notin S
    <3>1. c \in DOMAIN ids /\ c \in DOMAIN candFile' /\ candFile'[c] = candFile[c]
      BY <2>1, <2>2, <2>4 DEF Parked
    <3>2. TitleOf[home[c]] \notin S
      BY <3>1, <2>1, <1>2, <1>3
    <3> QED BY <3>1, <3>2, <2>1, <2>4 DEF Parked
  <2> QED BY <2>3, <2>4
<1>6. DOMAIN cand' \subseteq DOMAIN cand /\ DOMAIN candFile' \subseteq DOMAIN cand'
  BY <1>1 DEF Without
<1> HIDE DEF due, found
<1>7. DOMAIN cand' = Sitting' \cup Parked'
  BY <1>4, <1>5, <1>6 DEF CandInv, Sitting, Parked
<1>8. /\ \A c \in Parked' : c \in Parked /\ TitleOf[home[c]] \notin S
      /\ \A c \in Sitting' : c \in Sitting \/ TitleOf[home[c]] \in S
  <2>1. Sitting' \cap Parked' = {}
    BY DEF Sitting, Parked
  <2>2. Sitting' \subseteq DOMAIN cand' /\ Parked' \subseteq DOMAIN cand'
    BY <1>7
  <2>3. \A c \in DOMAIN cand' : c \in Sitting \/ c \in Parked
    BY <1>6 DEF CandInv
  <2> QED BY <2>1, <2>2, <2>3, <1>4, <1>5
<1>9. Apart'
  BY <1>8 DEF CandInv, Apart
<1>10. OneCandidatePerFile'
  BY <1>6 DEF CandInv, OneCandidatePerFile
<1> QED BY <1>6, <1>7, <1>9, <1>10 DEF CandInv

LEMMA RestoredRequests ==
  ASSUME VersionInv, RequestInv, UNCHANGED <<version, late>>,
         NEW S, NEW rows, NEW cands, NEW ids, Restored(S, rows, cands, ids)
  PROVE  RequestInv'
<1> DEFINE back == {r \in DOMAIN reqFile : /\ reqFile[r].title \in S
                                          /\ Rebuilt(reqFile[r], rows) # {}}
<1>1. /\ request' = [r \in DOMAIN request |->
            IF r \in back
            THEN [request[r] EXCEPT !.version = Min(Rebuilt(reqFile[r], rows))]
            ELSE request[r]]
      /\ reqFile' = Without(reqFile, back)
  BY DEF Restored
<1>2. ASSUME NEW r \in back
      PROVE  Min(Rebuilt(reqFile[r], rows)) \in DOMAIN version
  <2>1. Rebuilt(reqFile[r], rows) \subseteq DOMAIN version
    BY DEF Rebuilt, Candidates
  <2>2. Rebuilt(reqFile[r], rows) # {}
    OBVIOUS
  <2>3. Rebuilt(reqFile[r], rows) \subseteq Nat
    BY <2>1 DEF VersionInv
  <2> QED BY <2>1, <2>2, <2>3, MinIsIn
<1>3. DOMAIN version \subseteq Nat \ {Null}
  BY DEF VersionInv
<1> HIDE DEF back
<1>4. DOMAIN request' = DOMAIN request /\ DOMAIN reqFile' = DOMAIN reqFile \ back
  BY <1>1 DEF Without
<1>5. ASSUME NEW r \in DOMAIN request
      PROVE  /\ request'[r] \in RequestRow
             /\ IF request'[r].version = Null
                THEN request'[r].scope = "movie_version" /\ r \in DOMAIN reqFile' \cup late
                ELSE request'[r].version \in DOMAIN version
  <2>1. request[r] \in RequestRow
    BY DEF RequestInv
  <2>2. CASE r \in back
    <3>1. request'[r] = [request[r] EXCEPT !.version = Min(Rebuilt(reqFile[r], rows))]
      BY <1>1, <2>2
    <3> QED BY <3>1, <2>1, <2>2, <1>2, <1>3 DEF RequestRow
  <2>3. CASE r \notin back
    <3>1. request'[r] = request[r]
      BY <1>1, <2>3
    <3> QED BY <3>1, <2>1, <2>3, <1>4 DEF RequestInv
  <2> QED BY <2>2, <2>3
<1> QED BY <1>1, <1>4, <1>5 DEF RequestInv

-----------------------------------------------------------------------------
(***************************************************************************)
(* The scan gives every title that does not wait the candidates its rules  *)
(* ask for.                                                                *)
(***************************************************************************)
LEMMA ScanCandidates ==
  ASSUME VersionInv, CandInv, Scan
  PROVE  CandInv'
<1>1. PICK matched \in SUBSET {i \in DOMAIN version : title[Movie(i)] = "live"} :
       LET records == {i \in matched : Movie(i) \notin Waiting}
           kept == {c \in DOMAIN cand : c \in DOMAIN candFile \/ cand[c].version \in records}
           new == {i \in records : \A c \in kept : cand[c].version # i}
       IN \E id \in [new -> CandidateId \ kept] :
            /\ \A i, k \in new : id[i] = id[k] => i = k
            /\ cand' = [c \in kept \cup {id[i] : i \in new} |->
                 IF c \in kept THEN cand[c]
                 ELSE LET i == CHOOSE i \in new : id[i] = c
                      IN [title |-> Movie(i), version |-> i]]
            /\ home' = [c \in CandidateId |->
                 IF \E i \in new : id[i] = c
                 THEN version[CHOOSE i \in new : id[i] = c] ELSE home[c]]
  BY DEF Scan
<1> DEFINE records == {i \in matched : Movie(i) \notin Waiting}
           kept == {c \in DOMAIN cand : c \in DOMAIN candFile \/ cand[c].version \in records}
           new == {i \in records : \A c \in kept : cand[c].version # i}
<1>2. PICK id \in [new -> CandidateId \ kept] :
            /\ \A i, k \in new : id[i] = id[k] => i = k
            /\ cand' = [c \in kept \cup {id[i] : i \in new} |->
                 IF c \in kept THEN cand[c]
                 ELSE LET i == CHOOSE i \in new : id[i] = c
                      IN [title |-> Movie(i), version |-> i]]
            /\ home' = [c \in CandidateId |->
                 IF \E i \in new : id[i] = c
                 THEN version[CHOOSE i \in new : id[i] = c] ELSE home[c]]
  BY <1>1
<1>3. UNCHANGED <<version, candFile>>
  BY DEF Scan
<1>4. /\ kept \subseteq DOMAIN cand /\ DOMAIN candFile \subseteq kept
      /\ kept \subseteq CandidateId
      /\ new \subseteq DOMAIN version
  BY DEF CandInv
<1>5. \A i \in new : Movie(i) \notin Waiting
  OBVIOUS
<1>6. \A i \in new, c \in kept : cand[c].version # i
  OBVIOUS
<1> HIDE DEF records, kept, new
<1>7. \A c \in DOMAIN cand' : c \in kept \/ \E i \in new : c = id[i]
  BY <1>2
<1>8. DOMAIN cand' \subseteq CandidateId /\ DOMAIN candFile' \subseteq DOMAIN cand'
  BY <1>2, <1>3, <1>4
<1>9. ASSUME NEW c \in kept
      PROVE  c \in DOMAIN cand' /\ cand'[c] = cand[c] /\ home'[c] = home[c]
  <2>1. \A i \in new : id[i] # c
    BY <1>2
  <2> QED BY <2>1, <1>2, <1>4
<1>10. ASSUME NEW i \in new
       PROVE  /\ cand'[id[i]] = [title |-> Movie(i), version |-> i]
              /\ home'[id[i]] = version[i]
              /\ id[i] \in DOMAIN cand' \ kept
  <2>1. id[i] \in CandidateId \ kept
    BY <1>2
  <2>2. (CHOOSE k \in new : id[k] = id[i]) = i
    BY <1>2
  <2> QED BY <1>2, <2>1, <2>2
<1>11. ASSUME NEW c \in kept
       PROVE  c \in Sitting \/ c \in Parked
  BY <1>4 DEF CandInv
<1>12. ASSUME NEW c \in kept
       PROVE  /\ c \in Sitting <=> c \in Sitting'
              /\ c \in Parked <=> c \in Parked'
  BY <1>3, <1>4, <1>9 DEF Sitting, Parked, Movie
<1>13. ASSUME NEW i \in new
       PROVE  id[i] \in Sitting'
  <2>1. id[i] \in DOMAIN cand' \ DOMAIN candFile'
    BY <1>3, <1>4, <1>10
  <2> DEFINE row == cand'[id[i]]
  <2>2. row.version = i /\ row.title = TitleOf[version[i]]
    <3>1. row = [title |-> Movie(i), version |-> i]
      BY <1>10
    <3> HIDE DEF row
    <3> QED BY <3>1 DEF Movie
  <2>3. i \in DOMAIN version /\ home'[id[i]] = version[i]
    BY <1>4, <1>10
  <2> QED BY <2>1, <2>2, <2>3, <1>3 DEF Sitting, Movie
<1>14. DOMAIN cand' = Sitting' \cup Parked'
  <2>1. DOMAIN cand' \subseteq Sitting' \cup Parked'
    BY <1>7, <1>11, <1>12, <1>13
  <2> QED BY <2>1 DEF Sitting, Parked
<1>15. \A c \in Parked' : c \in kept /\ c \in Parked
  <2>1. \A c \in Parked' : c \in DOMAIN candFile
    BY <1>3 DEF Parked
  <2> QED BY <2>1, <1>4, <1>12
<1>16. \A c \in Parked : TitleOf[home[c]] \in Waiting
  BY DEF Parked, Waiting
<1>17. \A c \in kept \cap Sitting : /\ home[c] = version[cand[c].version]
                                  /\ cand[c].version \in DOMAIN version
  BY DEF Sitting
<1>18. Apart'
  <2> SUFFICES ASSUME NEW c \in Parked', NEW d \in Sitting'
               PROVE  TitleOf[home'[c]] # TitleOf[home'[d]]
    BY DEF Apart
  <2>1. c \in kept /\ c \in Parked /\ home'[c] = home[c]
    BY <1>15, <1>9
  <2>2. CASE d \in kept
    BY <2>1, <2>2, <1>9, <1>12 DEF CandInv, Apart
  <2>3. CASE d \notin kept
    <3>1. PICK i \in new : d = id[i]
      BY <2>3, <1>7 DEF Sitting
    <3>2. TitleOf[home'[d]] = Movie(i)
      BY <3>1, <1>10 DEF Movie
    <3> QED BY <3>2, <2>1, <1>5, <1>16
  <2> QED BY <2>2, <2>3
<1>19. ASSUME NEW c \in kept, NEW i \in new
       PROVE  home[c] # version[i]
  <2>1. CASE c \in Parked
    BY <2>1, <1>5, <1>16 DEF Movie
  <2>2. CASE c \in Sitting
    BY <2>2, <1>4, <1>6, <1>17 DEF VersionInv
  <2> QED BY <2>1, <2>2, <1>11
<1>20. OneCandidatePerFile'
  <2> SUFFICES ASSUME NEW c \in DOMAIN cand', NEW d \in DOMAIN cand', c # d
               PROVE  home'[c] # home'[d]
    BY DEF OneCandidatePerFile
  <2>1. CASE c \in kept /\ d \in kept
    BY <2>1, <1>4, <1>9 DEF CandInv, OneCandidatePerFile
  <2>2. CASE c \in kept /\ d \notin kept
    <3>1. PICK i \in new : d = id[i]
      BY <2>2, <1>7
    <3>2. home'[d] = version[i]
      BY <3>1, <1>10
    <3> QED BY <3>2, <2>2, <1>9, <1>19
  <2>3. CASE c \notin kept /\ d \in kept
    <3>1. PICK i \in new : c = id[i]
      BY <2>3, <1>7
    <3>2. home'[c] = version[i]
      BY <3>1, <1>10
    <3> QED BY <3>2, <2>3, <1>9, <1>19
  <2>4. CASE c \notin kept /\ d \notin kept
    <3>1. PICK i \in new, k \in new : c = id[i] /\ d = id[k]
      BY <2>4, <1>7
    <3>2. home'[c] = version[i] /\ home'[d] = version[k]
      BY <3>1, <1>10
    <3>3. i # k /\ i \in DOMAIN version /\ k \in DOMAIN version
      BY <3>1, <1>4
    <3>4. version[i] # version[k]
      BY <3>3 DEF VersionInv
    <3> QED BY <3>2, <3>4
  <2> QED BY <2>1, <2>2, <2>3, <2>4
<1>21. home' \in [CandidateId -> File \cup {Null}]
  <2>1. ASSUME NEW c \in CandidateId PROVE home'[c] \in File \cup {Null}
    <3>1. CASE \E i \in new : id[i] = c
      <4>1. PICK i \in new : id[i] = c
        BY <3>1
      <4>2. home'[c] = version[i]
        BY <4>1, <1>10
      <4> QED BY <4>2, <1>4 DEF VersionInv
    <3>2. CASE ~\E i \in new : id[i] = c
      BY <3>2, <1>2 DEF CandInv
    <3> QED BY <3>1, <3>2
  <2> QED BY <2>1, <1>2
<1> QED BY <1>8, <1>14, <1>18, <1>20, <1>21 DEF CandInv

(***************************************************************************)
(* A resync detaches all, in one transaction.                              *)
(***************************************************************************)
LEMMA DetachingTask ==
  ASSUME TaskInv, task.at = "detaching"
  PROVE  /\ task \in Detaching
         /\ \A c \in task.cands \cap DOMAIN cand : c \in Attached
         /\ \A r \in task.reqs \cap DOMAIN request : request[r].version # Null
<1>1. task \in Detaching
  BY DEF TaskInv, Idle, Detaching, Starting, Syncing
<1> QED BY <1>1 DEF TaskInv

LEMMA DetachedCandidates ==
  ASSUME VersionInv, CandInv, TaskInv, DetachAll
  PROVE  CandInv'
<1>1. /\ task.at = "detaching" /\ task.cands \subseteq DOMAIN cand
      /\ candFile' = Merged(candFile, cand, task.cands)
      /\ cand' = [c \in DOMAIN cand \ (Attached \ task.cands) |->
                    IF c \in Attached THEN NoTarget ELSE cand[c]]
      /\ home' = home
  BY DEF DetachAll
<1>2. task.cands \subseteq Attached
  BY <1>1, DetachingTask
<1>3. /\ Attached = Sitting /\ DOMAIN cand = Sitting \cup Parked
      /\ Sitting \cap Parked = {}
  BY Attachment DEF CandInv
<1>4. DOMAIN candFile = Parked
  BY <1>3 DEF CandInv, Sitting, Parked
<1>5. DOMAIN cand' = Parked \cup task.cands /\ DOMAIN candFile' = Parked \cup task.cands
  BY <1>1, <1>2, <1>3, <1>4 DEF Merged
<1>6. ASSUME NEW c \in DOMAIN cand'
      PROVE  c \in Parked'
  <2>1. CASE c \in task.cands
    <3>1. c \in Sitting
      BY <2>1, <1>2, <1>3
    <3>2. cand'[c] = NoTarget /\ candFile'[c] = Identity(cand[c])
      BY <2>1, <1>1, <1>2, <1>5 DEF Merged
    <3>3. /\ Identity(cand[c]) = [title |-> TitleOf[home[c]], file |-> home[c]]
          /\ home[c] \in File
      BY <3>1 DEF Identity, Sitting, Movie, VersionInv
    <3> QED BY <3>2, <3>3, <1>1, <1>5 DEF Parked
  <2>2. CASE c \notin task.cands
    <3>1. c \in Parked /\ c \notin Attached
      BY <2>2, <1>3, <1>5
    <3>2. cand'[c] = cand[c] /\ candFile'[c] = candFile[c]
      BY <2>2, <3>1, <1>1, <1>4, <1>5 DEF Merged
    <3> QED BY <3>1, <3>2, <1>1, <1>5 DEF Parked
  <2> QED BY <2>1, <2>2
<1>7. Sitting' = {}
  BY <1>5 DEF Sitting
<1>8. DOMAIN cand' = Sitting' \cup Parked'
  BY <1>6, <1>7 DEF Parked
<1>9. DOMAIN cand' \subseteq DOMAIN cand
  BY <1>1
<1>10. OneCandidatePerFile'
  BY <1>1, <1>9 DEF CandInv, OneCandidatePerFile
<1>11. Apart'
  BY <1>7 DEF Apart
<1> QED BY <1>1, <1>5, <1>8, <1>9, <1>10, <1>11 DEF CandInv

LEMMA DetachedRequests ==
  ASSUME RequestInv, TaskInv, DetachAll
  PROVE  RequestInv'
<1>1. /\ task.at = "detaching" /\ task.reqs \subseteq DOMAIN request
      /\ reqFile' = Merged(reqFile, request, task.reqs)
      /\ request' = Detached(request)
      /\ late' = late \cup {r \in DOMAIN request \ task.reqs : request[r].version # Null}
  BY DEF DetachAll
<1>2. DOMAIN reqFile' = DOMAIN reqFile \cup task.reqs /\ DOMAIN request' = DOMAIN request
  BY <1>1 DEF Merged, Detached
<1>3. ASSUME NEW r \in DOMAIN request
      PROVE  /\ request'[r] \in RequestRow
             /\ request'[r].version = Null /\ request'[r].scope = "movie_version"
             /\ r \in DOMAIN reqFile' \cup late'
  <2>1. request[r] \in RequestRow
    BY DEF RequestInv
  <2>2. CASE request[r].version = Null
    BY <2>1, <2>2, <1>1, <1>2 DEF Detached, RequestInv
  <2>3. CASE request[r].version # Null
    <3>1. request'[r] = [request[r] EXCEPT !.version = Null, !.scope = "movie_version"]
      BY <2>3, <1>1 DEF Detached
    <3>2. r \in DOMAIN reqFile' \cup late'
      BY <2>3, <1>1, <1>2
    <3>3. request'[r] = [title |-> request[r].title, version |-> Null, scope |-> "movie_version"]
      BY <2>1, <3>1 DEF RequestRow
    <3>4. request[r].title \in Title
      BY <2>1 DEF RequestRow
    <3>5. Null \in Nat
      BY DEF Null
    <3> QED BY <3>2, <3>3, <3>4, <3>5 DEF RequestRow
  <2> QED BY <2>2, <2>3
<1>4. request' \in [DOMAIN request' -> RequestRow]
  BY <1>1, <1>2, <1>3 DEF Detached
<1> QED BY <1>1, <1>2, <1>3, <1>4 DEF RequestInv

-----------------------------------------------------------------------------
(***************************************************************************)
(* A title is brought into line: rows stay, are renamed, or go.            *)
(***************************************************************************)
Files(t) == {f \in task.inventory : TitleOf[f] = t}
Pairs(t) == Renamed(t, Files(t))
Stale(t) == Gone(t, Files(t)) \ {p[1] : p \in Pairs(t)}
Added(t) == New(t, Files(t)) \ {p[2] : p \in Pairs(t)}
Kept(t) == DOMAIN version \ Stale(t)

\* A rename is one row that is gone and one file that is new.
LEMMA RenamesMatch ==
  ASSUME NEW t \in Title
  PROVE  /\ Pairs(t) \subseteq Gone(t, Files(t)) \X New(t, Files(t))
         /\ \A p, q \in Pairs(t) : p[1] = q[1] <=> p[2] = q[2]
<1>1. Pairs(t) \subseteq Gone(t, Files(t)) \X New(t, Files(t))
  BY DEF Pairs, Renamed
<1>2. ASSUME NEW p \in Pairs(t), NEW q \in Pairs(t)
      PROVE  p[1] = q[1] <=> p[2] = q[2]
  <2>1. /\ Alike(version[p[1]], p[2]) /\ Alike(version[q[1]], q[2])
        /\ \A i \in Gone(t, Files(t)) : Alike(version[i], p[2]) => i = p[1]
        /\ \A f \in New(t, Files(t)) : Alike(f, p[2]) => f = p[2]
    BY DEF Pairs, Renamed
  <2>2. p[1] \in Gone(t, Files(t)) /\ q[1] \in Gone(t, Files(t))
        /\ p[2] \in New(t, Files(t)) /\ q[2] \in New(t, Files(t))
    BY <1>1
  <2>3. p[1] = q[1] => p[2] = q[2]
    <3>1. p[1] = q[1] => Alike(q[2], p[2])
      BY <2>1 DEF Alike
    <3> QED BY <3>1, <2>1, <2>2
  <2>4. p[2] = q[2] => p[1] = q[1]
    BY <2>1, <2>2
  <2> QED BY <2>3, <2>4
<1> QED BY <1>1, <1>2

\* A row that has a rename gets the new file, every other row keeps its own; and
\* a file is never given to a second row.
LEMMA RenamedRows ==
  ASSUME VersionInv, NEW t \in Title, task.inventory \subseteq File
  PROVE  /\ \A i \in Kept(t) :
              \/ /\ Rename(Pairs(t), i) = version[i]
                 /\ ~\E p \in Pairs(t) : p[1] = i
                 /\ version[i] \notin New(t, Files(t))
              \/ /\ \E p \in Pairs(t) : p[1] = i /\ Rename(Pairs(t), i) = p[2]
                 /\ i \in Gone(t, Files(t))
                 /\ Rename(Pairs(t), i) \in New(t, Files(t)) \ Added(t)
         /\ \A i, k \in Kept(t) : Rename(Pairs(t), i) = Rename(Pairs(t), k) => i = k
         /\ New(t, Files(t)) \subseteq {f \in File : TitleOf[f] = t}
<1>1. New(t, Files(t)) \subseteq {f \in File : TitleOf[f] = t}
  BY DEF New, Files
<1>2. ASSUME NEW i \in Kept(t)
      PROVE  \/ /\ Rename(Pairs(t), i) = version[i]
                /\ ~\E p \in Pairs(t) : p[1] = i
                /\ version[i] \notin New(t, Files(t))
             \/ /\ \E p \in Pairs(t) : p[1] = i /\ Rename(Pairs(t), i) = p[2]
                /\ i \in Gone(t, Files(t))
                /\ Rename(Pairs(t), i) \in New(t, Files(t)) \ Added(t)
  <2>1. CASE \E p \in Pairs(t) : p[1] = i
    <3>1. PICK p \in Pairs(t) : p[1] = i /\ Rename(Pairs(t), i) = p[2]
      BY <2>1 DEF Rename
    <3>2. i \in Gone(t, Files(t)) /\ p[2] \in New(t, Files(t))
      BY <3>1, RenamesMatch
    <3>3. p[2] \notin Added(t)
      BY DEF Added
    <3> QED BY <3>1, <3>2, <3>3
  <2>2. CASE ~\E p \in Pairs(t) : p[1] = i
    <3>1. Rename(Pairs(t), i) = version[i]
      BY <2>2 DEF Rename
    <3>2. i \in DOMAIN version /\ version[i] \in File
      BY DEF Kept, VersionInv
    <3>3. version[i] \notin New(t, Files(t))
      <4> SUFFICES ASSUME version[i] \in New(t, Files(t)) PROVE FALSE
        OBVIOUS
      <4>1. i \in VersionsOf(t)
        BY <1>1, <3>2 DEF VersionsOf, Movie
      <4> QED BY <4>1 DEF New
    <3> QED BY <2>2, <3>1, <3>3
  <2> QED BY <2>1, <2>2
<1>3. ASSUME NEW i \in Kept(t), NEW k \in Kept(t),
             Rename(Pairs(t), i) = Rename(Pairs(t), k)
      PROVE  i = k
  <2>1. CASE ~(\E p \in Pairs(t) : p[1] = i) /\ ~(\E p \in Pairs(t) : p[1] = k)
    BY <2>1, <1>2, <1>3 DEF Kept, VersionInv
  <2>2. CASE (\E p \in Pairs(t) : p[1] = i) /\ (\E p \in Pairs(t) : p[1] = k)
    <3>1. PICK p \in Pairs(t) : p[1] = i /\ Rename(Pairs(t), i) = p[2]
      BY <2>2, <1>2
    <3>2. PICK q \in Pairs(t) : q[1] = k /\ Rename(Pairs(t), k) = q[2]
      BY <2>2, <1>2
    <3> QED BY <3>1, <3>2, <1>3, RenamesMatch
  <2>3. CASE (\E p \in Pairs(t) : p[1] = i) /\ ~(\E p \in Pairs(t) : p[1] = k)
    <3>1. Rename(Pairs(t), i) \in New(t, Files(t))
      BY <2>3, <1>2
    <3>2. Rename(Pairs(t), k) \notin New(t, Files(t))
      BY <2>3, <1>2
    <3> QED BY <3>1, <3>2, <1>3
  <2>4. CASE ~(\E p \in Pairs(t) : p[1] = i) /\ (\E p \in Pairs(t) : p[1] = k)
    <3>1. Rename(Pairs(t), k) \in New(t, Files(t))
      BY <2>4, <1>2
    <3>2. Rename(Pairs(t), i) \notin New(t, Files(t))
      BY <2>4, <1>2
    <3> QED BY <3>1, <3>2, <1>3
  <2> QED BY <2>1, <2>2, <2>3, <2>4
<1> QED BY <1>1, <1>2, <1>3

\* What the step does, without its abbreviations.
LEMMA Upserted ==
  ASSUME NEW t \in Title, UpsertTitle(t)
  PROVE  LET top == IF Kept(t) = {} THEN 0 ELSE Max(Kept(t))
             moved == {c \in Attached : /\ home[c] \notin Files(t)
                                        /\ \E p \in Pairs(t) : p[1] = cand[c].version}
         IN /\ \E rank \in [Added(t) -> 1..Cardinality(Added(t))] :
                  version' = [i \in Kept(t) \cup {top + rank[f] : f \in Added(t)} |->
                    IF i \in Kept(t) THEN Rename(Pairs(t), i)
                    ELSE CHOOSE f \in Added(t) : top + rank[f] = i]
            /\ cand' = WithoutReferences(cand, Stale(t))
            /\ request' = WithoutReferences(request, Stale(t))
            /\ candFile' = Without(candFile, DOMAIN cand \ DOMAIN cand')
            /\ reqFile' = Without(reqFile, DOMAIN request \ DOMAIN request')
            /\ home' = [c \in CandidateId |->
                 IF c \in moved THEN Rename(Pairs(t), cand[c].version) ELSE home[c]]
BY DEF UpsertTitle, Files, Pairs, Stale, Added, Kept

LEMMA UpsertedRows ==
  ASSUME VersionInv, NEW t \in Title, task.inventory \subseteq File, UpsertTitle(t)
  PROVE  /\ VersionInv'
         /\ Kept(t) \subseteq DOMAIN version'
         /\ \A i \in Kept(t) : version'[i] = Rename(Pairs(t), i)
<1> DEFINE kept == Kept(t)
           added == Added(t)
           top == IF kept = {} THEN 0 ELSE Max(kept)
<1>1. PICK rank \in [added -> 1..Cardinality(added)] :
        version' = [i \in kept \cup {top + rank[f] : f \in added} |->
                    IF i \in kept THEN Rename(Pairs(t), i)
                    ELSE CHOOSE f \in added : top + rank[f] = i]
  BY Upserted
<1>2. kept \subseteq DOMAIN version /\ kept \subseteq Nat \ {Null}
  BY DEF VersionInv, Kept
<1>3. PICK b \in Nat : \A i \in kept : i <= b
  BY <1>2 DEF VersionInv
<1>4. added \subseteq New(t, Files(t)) /\ added \subseteq File
  BY RenamedRows DEF Added
<1>5. Cardinality(added) \in Nat
  BY <1>4, MediaAssumption, FS_Subset, FS_CardinalityType
<1>6. top \in Nat /\ top <= b
  <2>1. CASE kept = {}
    BY <2>1
  <2>2. CASE kept # {}
    <3>1. Max(kept) \in kept
      BY <2>2, <1>2, <1>3, MaxIsIn
    <3> QED BY <2>2, <3>1, <1>2, <1>3
  <2> QED BY <2>1, <2>2
<1> HIDE DEF kept, added, top
<1>7. \A f \in added : /\ top + rank[f] \in Nat \ {Null}
                       /\ top + rank[f] <= b + Cardinality(added)
  BY <1>1, <1>5, <1>6, <1>3 DEF Null
<1>8. ASSUME NEW i \in kept
      PROVE  /\ i \in DOMAIN version' /\ version'[i] = Rename(Pairs(t), i)
             /\ version'[i] \in File \ added
  <2>1. i \in DOMAIN version' /\ version'[i] = Rename(Pairs(t), i)
    BY <1>1
  <2>2. Rename(Pairs(t), i) \in File \ added
    BY <1>2, <1>4, RenamedRows DEF VersionInv, kept, added
  <2> QED BY <2>1, <2>2
<1>9. ASSUME NEW i \in DOMAIN version', i \notin kept
      PROVE  \E f \in added : i = top + rank[f] /\ version'[i] = f
  <2>1. version'[i] = CHOOSE f \in added : top + rank[f] = i
    BY <1>1, <1>9
  <2>2. \E f \in added : top + rank[f] = i
    BY <1>1, <1>9
  <2> QED BY <2>1, <2>2
<1>10. DOMAIN version' \subseteq Nat \ {Null}
  BY <1>2, <1>7, <1>9
<1>11. \A i \in DOMAIN version' : i <= b + Cardinality(added)
  <2> SUFFICES ASSUME NEW i \in DOMAIN version' PROVE i <= b + Cardinality(added)
    OBVIOUS
  <2>1. CASE i \in kept
    BY <2>1, <1>2, <1>3, <1>5
  <2>2. CASE i \notin kept
    BY <2>2, <1>7, <1>9
  <2> QED BY <2>1, <2>2
<1>12. b + Cardinality(added) \in Nat
  BY <1>5
<1>13. version' \in [DOMAIN version' -> File]
  <2>1. \A i \in DOMAIN version' : version'[i] \in File
    BY <1>4, <1>8, <1>9
  <2>2. version' = [i \in DOMAIN version' |-> version'[i]]
    BY <1>1
  <2> QED BY <2>1, <2>2
<1>14. ASSUME NEW i \in DOMAIN version', NEW k \in DOMAIN version', version'[i] = version'[k]
       PROVE  i = k
  <2>1. CASE i \in kept /\ k \in kept
    BY <2>1, <1>8, <1>14, RenamedRows DEF kept
  <2>2. CASE i \notin kept /\ k \notin kept
    BY <2>2, <1>9, <1>14
  <2>3. CASE i \in kept /\ k \notin kept
    BY <2>3, <1>8, <1>9, <1>14
  <2>4. CASE i \notin kept /\ k \in kept
    BY <2>4, <1>8, <1>9, <1>14
  <2> QED BY <2>1, <2>2, <2>3, <2>4
<1>15. VersionInv'
  BY <1>10, <1>11, <1>12, <1>13, <1>14 DEF VersionInv
<1> QED BY <1>8, <1>15 DEF kept

\* A candidate goes with its row, and moves with it when it is renamed; what
\* waits is not touched.
LEMMA UpsertedCandidates ==
  ASSUME VersionInv, CandInv, NEW t \in Title, task.inventory \subseteq File, UpsertTitle(t)
  PROVE  CandInv'
<1> DEFINE moved == {c \in Attached : /\ home[c] \notin Files(t)
                                     /\ \E p \in Pairs(t) : p[1] = cand[c].version}
<1>1. /\ cand' = WithoutReferences(cand, Stale(t))
      /\ candFile' = Without(candFile, DOMAIN cand \ DOMAIN cand')
      /\ home' = [c \in CandidateId |->
           IF c \in moved THEN Rename(Pairs(t), cand[c].version) ELSE home[c]]
  BY Upserted
<1>2. /\ DOMAIN cand' = {c \in DOMAIN cand : cand[c].version \notin Stale(t)}
      /\ \A c \in DOMAIN cand' : cand'[c] = cand[c]
  BY <1>1 DEF WithoutReferences, Without
<1>3. /\ DOMAIN candFile' = DOMAIN candFile \cap DOMAIN cand'
      /\ \A c \in DOMAIN candFile' : candFile'[c] = candFile[c]
  BY <1>1 DEF CandInv, Without
<1>4. /\ Attached = Sitting /\ Sitting \cap Parked = {}
      /\ \A c \in Parked : cand[c].version = Null
      /\ DOMAIN cand = Sitting \cup Parked
  BY Attachment DEF CandInv
<1>5. Stale(t) \subseteq DOMAIN version /\ Null \notin Stale(t)
  BY DEF Stale, Gone, VersionsOf, VersionInv
<1>6. ASSUME NEW c \in Sitting, c \in DOMAIN cand'
      PROVE  /\ cand[c].version \in Kept(t) /\ cand[c].version \in DOMAIN version'
             /\ home'[c] = version'[cand[c].version]
             /\ TitleOf[home'[c]] = TitleOf[home[c]]
             /\ home'[c] \in File
  <2> DEFINE i == cand[c].version
  <2>1. /\ i \in Kept(t) /\ i \in DOMAIN version /\ home[c] = version[i]
        /\ c \in CandidateId
    BY <1>2, <1>6 DEF Sitting, Kept, CandInv
  <2>2. i \in DOMAIN version' /\ version'[i] = Rename(Pairs(t), i) /\ version'[i] \in File
    BY <2>1, UpsertedRows DEF VersionInv
  <2>3. CASE ~\E p \in Pairs(t) : p[1] = i
    <3>1. version'[i] = version[i]
      BY <2>1, <2>2, <2>3, RenamedRows
    <3>2. home'[c] = home[c]
      BY <2>1, <2>3, <1>1
    <3> QED BY <3>1, <3>2, <2>1, <2>2
  <2>4. CASE \E p \in Pairs(t) : p[1] = i
    <3>1. i \in Gone(t, Files(t)) /\ Rename(Pairs(t), i) \in New(t, Files(t))
      BY <2>1, <2>4, RenamedRows
    <3>2. version[i] \notin Files(t) /\ TitleOf[version[i]] = t
      BY <3>1 DEF Gone, VersionsOf, Movie
    <3>3. c \in moved
      BY <3>2, <2>1, <2>4, <1>4
    <3>4. home'[c] = Rename(Pairs(t), i)
      BY <3>3, <2>1, <1>1
    <3>5. TitleOf[Rename(Pairs(t), i)] = t
      BY <3>1, RenamedRows
    <3> QED BY <3>2, <3>4, <3>5, <2>1, <2>2
  <2> QED BY <2>3, <2>4
<1>7. ASSUME NEW c \in Parked
      PROVE  /\ c \in DOMAIN cand' /\ c \in DOMAIN candFile'
             /\ cand'[c] = cand[c] /\ candFile'[c] = candFile[c]
             /\ home'[c] = home[c]
  <2>1. c \in DOMAIN cand' /\ c \in DOMAIN candFile' /\ c \in CandidateId
    BY <1>2, <1>3, <1>4, <1>5 DEF Parked, CandInv
  <2>2. c \notin moved
    BY <1>4
  <2> QED BY <2>1, <2>2, <1>1, <1>2, <1>3
<1> HIDE DEF moved
<1>8. ASSUME NEW c \in Sitting, c \in DOMAIN cand' PROVE c \in Sitting'
  <2>1. c \notin DOMAIN candFile' /\ cand'[c] = cand[c]
    BY <1>2, <1>3, <1>8 DEF Sitting
  <2>2. cand[c].title = TitleOf[home[c]]
    BY DEF Sitting, Movie
  <2>3. cand[c].title = TitleOf[version'[cand[c].version]]
    BY <2>2, <1>6, <1>8
  <2> QED BY <2>1, <2>3, <1>6, <1>8 DEF Sitting, Movie
<1>9. ASSUME NEW c \in Parked PROVE c \in Parked'
  BY <1>7 DEF Parked
<1>10. DOMAIN cand' = Sitting' \cup Parked'
  <2>1. DOMAIN cand' \subseteq Sitting' \cup Parked'
    BY <1>2, <1>4, <1>8, <1>9
  <2> QED BY <2>1 DEF Sitting, Parked
<1>11. /\ \A c \in Sitting' : c \in Sitting /\ c \in DOMAIN cand'
       /\ \A c \in Parked' : c \in Parked
  <2>1. Sitting' \cap Parked' = {} /\ Sitting' \subseteq DOMAIN cand' /\ Parked' \subseteq DOMAIN cand'
    BY DEF Sitting, Parked
  <2> QED BY <2>1, <1>2, <1>4, <1>8, <1>9
<1>12. Apart'
  <2> SUFFICES ASSUME NEW c \in Parked', NEW d \in Sitting'
               PROVE  TitleOf[home'[c]] # TitleOf[home'[d]]
    BY DEF Apart
  <2>1. c \in Parked /\ d \in Sitting /\ d \in DOMAIN cand'
    BY <1>11
  <2>2. home'[c] = home[c] /\ TitleOf[home'[d]] = TitleOf[home[d]]
    BY <2>1, <1>6, <1>7
  <2> QED BY <2>1, <2>2 DEF CandInv, Apart
<1>13. OneCandidatePerFile'
  <2> SUFFICES ASSUME NEW c \in DOMAIN cand', NEW d \in DOMAIN cand', c # d
               PROVE  home'[c] # home'[d]
    BY DEF OneCandidatePerFile
  <2>1. home[c] # home[d]
    BY <1>2 DEF CandInv, OneCandidatePerFile
  <2>2. CASE c \in Sitting /\ d \in Sitting
    <3>1. /\ home[c] = version[cand[c].version] /\ home[d] = version[cand[d].version]
      BY <2>2 DEF Sitting
    <3>2. cand[c].version # cand[d].version
      BY <3>1, <2>1
    <3>3. /\ cand[c].version \in DOMAIN version' /\ cand[d].version \in DOMAIN version'
          /\ home'[c] = version'[cand[c].version] /\ home'[d] = version'[cand[d].version]
      BY <2>2, <1>6
    <3>4. VersionInv'
      BY UpsertedRows
    <3> QED BY <3>2, <3>3, <3>4 DEF VersionInv
  <2>3. CASE c \in Parked /\ d \in Parked
    BY <2>1, <2>3, <1>7
  <2>4. CASE c \in Parked /\ d \in Sitting
    BY <2>4, <1>8, <1>9, <1>12 DEF Apart
  <2>5. CASE c \in Sitting /\ d \in Parked
    BY <2>5, <1>8, <1>9, <1>12 DEF Apart
  <2> QED BY <2>2, <2>3, <2>4, <2>5, <1>2, <1>4
<1>14. home' \in [CandidateId -> File \cup {Null}]
  <2>1. ASSUME NEW c \in CandidateId PROVE home'[c] \in File \cup {Null}
    <3>1. CASE c \in moved
      <4>1. c \in Sitting /\ \E p \in Pairs(t) : p[1] = cand[c].version
        BY <3>1, <1>4 DEF moved
      <4>2. cand[c].version \in DOMAIN version /\ cand[c].version \notin Stale(t)
        BY <4>1 DEF Sitting, Stale
      <4>3. c \in DOMAIN cand'
        BY <4>1, <4>2, <1>2 DEF Sitting
      <4> QED BY <4>1, <4>3, <1>6
    <3>2. CASE c \notin moved
      BY <3>2, <1>1 DEF CandInv
    <3> QED BY <3>1, <3>2
  <2> QED BY <2>1, <1>1
<1>15. DOMAIN cand' \subseteq CandidateId /\ DOMAIN candFile' \subseteq DOMAIN cand'
  BY <1>2, <1>3 DEF CandInv
<1> QED BY <1>10, <1>12, <1>13, <1>14, <1>15 DEF CandInv

LEMMA UpsertedRequests ==
  ASSUME VersionInv, RequestInv, NEW t \in Title, task.inventory \subseteq File, UpsertTitle(t)
  PROVE  RequestInv'
<1>1. /\ request' = WithoutReferences(request, Stale(t))
      /\ reqFile' = Without(reqFile, DOMAIN request \ DOMAIN request')
      /\ late' = late
  BY Upserted DEF UpsertTitle
<1>2. /\ DOMAIN request' = {r \in DOMAIN request : request[r].version \notin Stale(t)}
      /\ \A r \in DOMAIN request' : request'[r] = request[r]
      /\ request' = [r \in DOMAIN request' |-> request'[r]]
      /\ DOMAIN reqFile' = DOMAIN reqFile \cap DOMAIN request'
  BY <1>1 DEF WithoutReferences, Without, RequestInv
<1>3. ASSUME NEW r \in DOMAIN request'
      PROVE  /\ request'[r] \in RequestRow
             /\ IF request'[r].version = Null
                THEN request'[r].scope = "movie_version" /\ r \in DOMAIN reqFile' \cup late'
                ELSE request'[r].version \in DOMAIN version'
  <2>1. /\ r \in DOMAIN request /\ request'[r] = request[r] /\ request[r] \in RequestRow
        /\ request[r].version \notin Stale(t)
    BY <1>2 DEF RequestInv
  <2>2. CASE request[r].version = Null
    BY <2>1, <2>2, <1>1, <1>2 DEF RequestInv
  <2>3. CASE request[r].version # Null
    <3>1. request[r].version \in Kept(t)
      BY <2>1, <2>3 DEF RequestInv, Kept
    <3> QED BY <3>1, <2>1, <2>3, UpsertedRows
  <2> QED BY <2>2, <2>3
<1>4. request' \in [DOMAIN request' -> RequestRow]
  BY <1>2, <1>3
<1> QED BY <1>2, <1>3, <1>4 DEF RequestInv

-----------------------------------------------------------------------------
(***************************************************************************)
(* The invariant, action by action.                                        *)
(***************************************************************************)
LEMMA TaskKinds ==
  ASSUME TaskInv
  PROVE  /\ task.at \in {"upserting", "restoring", "emptied"} => task \in Syncing
         /\ task.at = "starting" => task \in Starting
BY DEF TaskInv, Idle, Detaching, Starting, Syncing

LEMMA IdleTask == ASSUME task' = Idle PROVE TaskInv'
BY DEF TaskInv, Idle, Detaching

LEMMA SyncingTask ==
  ASSUME task' \in Syncing, task'.at # "emptied" PROVE TaskInv'
BY DEF TaskInv, Syncing, Detaching

LEMMA Frames ==
  /\ VersionInv /\ UNCHANGED version => VersionInv'
  /\ RequestInv /\ UNCHANGED <<request, reqFile, late, version>> => RequestInv'
  /\ GuardInv /\ UNCHANGED <<proposal, missing>> => GuardInv'
BY DEF VersionInv, RequestInv, GuardInv

LEMMA InitInv == Init => Inv
<1> SUFFICES ASSUME Init PROVE Inv
  OBVIOUS
<1>1. /\ DOMAIN version = {} /\ DOMAIN cand = {} /\ DOMAIN request = {}
      /\ DOMAIN candFile = {} /\ DOMAIN reqFile = {}
      /\ version = [x \in {} |-> Null] /\ request = [x \in {} |-> Null]
  BY DEF Init, Empty
<1>2. VersionInv
  <2>1. 0 \in Nat
    OBVIOUS
  <2> QED BY <1>1, <2>1 DEF VersionInv
<1>3. CandInv
  <2>1. Sitting = {} /\ Parked = {}
    BY <1>1 DEF Sitting, Parked
  <2> QED BY <1>1, <2>1 DEF CandInv, Apart, OneCandidatePerFile, Init
<1>4. RequestInv
  BY <1>1 DEF RequestInv
<1>5. TaskInv
  BY DEF Init, TaskInv, Idle, Detaching
<1>6. GuardInv
  BY DEF Init, GuardInv, NoProposal
<1> QED BY <1>2, <1>3, <1>4, <1>5, <1>6 DEF Init, Inv

\* Starting a task, or losing one, touches no row.
LEMMA TaskSteps ==
  ASSUME Inv, \/ StartSync \/ StartResync \/ GatherMovies \/ InventoryUnavailable
              \/ TaskFails \/ DetachRefused \/ InventoryChanges
  PROVE  Inv'
<1>1. UNCHANGED <<rowVars, proposal, history>>
  BY DEF StartSync, StartResync, GatherMovies, InventoryUnavailable, TaskFails,
         DetachRefused, InventoryChanges
<1>2. VersionInv' /\ RequestInv' /\ GuardInv' /\ title' \in [Title -> {"absent", "live", "removed"}]
  BY <1>1, Frames DEF Inv, rowVars, history
<1>3. CandInv'
  BY <1>1, NoneGo DEF Inv, rowVars, history
<1>4. listed' \subseteq File
  BY DEF Inv, StartSync, StartResync, GatherMovies, InventoryUnavailable, TaskFails,
         DetachRefused, InventoryChanges
<1>5. CASE StartSync
  <2>1. task' \in Starting
    BY <1>5 DEF StartSync, Starting
  <2> QED BY <2>1, <1>2, <1>3, <1>4 DEF Inv, TaskInv, Starting, Detaching
<1>6. CASE StartResync
  <2>1. task' = [at |-> "detaching",
              cands |-> {c \in Attached : version[cand[c].version] \notin Pathless},
              reqs |-> {r \in DOMAIN request :
                          /\ request[r].version # Null
                          /\ version[request[r].version] \notin Pathless}]
    BY <1>6 DEF StartResync
  <2>2. Attached \subseteq CandidateId /\ DOMAIN request \subseteq RequestId
    BY DEF Inv, CandInv, RequestInv, Attached
  <2>3. task' \in Detaching
    BY <2>1, <2>2 DEF Detaching
  <2>4. task'.cands \subseteq Attached /\ \A r \in task'.reqs : request[r].version # Null
    BY <2>1
  <2>5. Attached' = Attached
    BY <1>1 DEF Attached, rowVars
  <2>6. TaskInv'
    BY <2>3, <2>4, <2>5, <1>1 DEF TaskInv, Detaching, rowVars
  <2> QED BY <2>6, <1>2, <1>3, <1>4 DEF Inv
<1>7. CASE GatherMovies
  <2>1. PICK inventory \in SUBSET listed :
       task' = IF inventory = {} /\ task.resync THEN Idle
                  ELSE [at |-> IF inventory = {} THEN "emptied" ELSE "upserting",
                        resync |-> task.resync, inventory |-> inventory,
                        known |-> Known, todo |-> {TitleOf[f] : f \in inventory}]
    BY <1>7 DEF GatherMovies
  <2>2. task.resync \in BOOLEAN
    BY <1>7, TaskKinds DEF GatherMovies, Inv, Starting
  <2>3. CASE task' = Idle
    BY <2>3, <1>2, <1>3, <1>4, IdleTask DEF Inv
  <2>4. CASE task' # Idle
    <3>1. task' = [at |-> IF inventory = {} THEN "emptied" ELSE "upserting",
                   resync |-> task.resync, inventory |-> inventory,
                   known |-> Known, todo |-> {TitleOf[f] : f \in inventory}]
      BY <2>1, <2>4
    <3>2. inventory \subseteq File /\ Known \subseteq Title
      BY DEF Inv, Known
    <3>3. {TitleOf[f] : f \in inventory} \subseteq Title
      BY <3>2, MediaAssumption
    <3>4. task' \in Syncing
      BY <3>1, <3>2, <3>3, <2>2 DEF Syncing
    <3>5. Live' \subseteq task'.known
      BY <3>1, <1>1 DEF Live, Known, rowVars
    <3>6. TaskInv'
      BY <3>4, <3>5 DEF TaskInv, Syncing, Detaching
    <3> QED BY <3>6, <1>2, <1>3, <1>4 DEF Inv
  <2> QED BY <2>3, <2>4
<1>8. CASE InventoryUnavailable \/ TaskFails \/ DetachRefused
  <2>1. task' = Idle
    BY <1>8 DEF InventoryUnavailable, TaskFails, DetachRefused
  <2> QED BY <2>1, <1>2, <1>3, <1>4, IdleTask DEF Inv
<1>9. CASE InventoryChanges
  <2>1. TaskInv'
    BY <1>9 DEF InventoryChanges, Inv, TaskInv, rowVars, Attached, Live
  <2> QED BY <2>1, <1>2, <1>3, <1>4 DEF Inv
<1> QED BY <1>5, <1>6, <1>7, <1>8, <1>9

\* The routes file, withdraw and drop between any two steps of a task.
LEMMA RouteSteps ==
  ASSUME Inv, Routes
  PROVE  Inv'
<1>1. UNCHANGED <<listed, title, version, proposal, task, home, missing>>
  BY DEF Routes, FileRequest, WithdrawRequest, DropCandidate, history
<1>2. VersionInv' /\ GuardInv' /\ title' \in [Title -> {"absent", "live", "removed"}]
      /\ listed' \subseteq File
  BY <1>1, Frames DEF Inv
<1>3. Live' = Live
  BY <1>1 DEF Live
<1>4. ASSUME NEW r \in RequestId, FileRequest(r) PROVE Inv'
  <2>1. UNCHANGED <<cand, candFile, reqFile, late>> /\ r \notin DOMAIN request
    BY <1>4 DEF FileRequest, history
  <2>2. PICK i \in DOMAIN version, scope \in {"movie_version", "none"} :
          request' = Put(request, r, [title |-> Movie(i), version |-> i, scope |-> scope])
    BY <1>4 DEF FileRequest
  <2> DEFINE row == [title |-> Movie(i), version |-> i, scope |-> scope]
  <2>3. row \in RequestRow /\ row.version = i /\ i # Null
    BY MediaAssumption DEF Inv, VersionInv, RequestRow, Movie
  <2> HIDE DEF row
  <2>4. /\ DOMAIN request' = DOMAIN request \cup {r}
        /\ \A x \in DOMAIN request' : request'[x] = IF x = r THEN row ELSE request[x]
        /\ request' = [x \in DOMAIN request' |-> request'[x]]
    BY <2>2 DEF Put, row
  <2>5. RequestInv'
    <3>1. ASSUME NEW x \in DOMAIN request'
          PROVE  /\ request'[x] \in RequestRow
                 /\ IF request'[x].version = Null
                    THEN request'[x].scope = "movie_version" /\ x \in DOMAIN reqFile' \cup late'
                    ELSE request'[x].version \in DOMAIN version'
      <4>1. CASE x = r
        BY <4>1, <2>3, <2>4, <1>1
      <4>2. CASE x # r
        BY <4>2, <2>1, <2>4, <1>1 DEF Inv, RequestInv
      <4> QED BY <4>1, <4>2
    <3>2. request' \in [DOMAIN request' -> RequestRow]
      BY <3>1, <2>4
    <3> QED BY <3>1, <3>2, <2>1, <2>4 DEF Inv, RequestInv
  <2>6. CandInv'
    BY <2>1, <1>1, NoneGo DEF Inv
  <2>7. \A x \in DOMAIN request' : x \in DOMAIN request \/ request'[x].version # Null
    BY <2>3, <2>4
  <2>8. TaskInv'
    BY <2>1, <2>4, <2>7, <1>1, <1>3 DEF Inv, TaskInv, Attached
  <2> QED BY <2>5, <2>6, <2>8, <1>2 DEF Inv
<1>5. ASSUME NEW r \in RequestId, WithdrawRequest(r) PROVE Inv'
  <2>1. /\ UNCHANGED <<cand, candFile>> /\ late' = late \ {r}
        /\ request' = Without(request, {r}) /\ reqFile' = Without(reqFile, {r})
    BY <1>5 DEF WithdrawRequest
  <2>2. /\ DOMAIN request' = DOMAIN request \ {r}
        /\ \A x \in DOMAIN request' : request'[x] = request[x]
        /\ request' = [x \in DOMAIN request' |-> request'[x]]
        /\ DOMAIN reqFile' = DOMAIN reqFile \ {r}
    BY <2>1 DEF Without
  <2>3. request' \in [DOMAIN request' -> RequestRow]
    BY <2>2 DEF Inv, RequestInv
  <2>4. RequestInv'
    BY <2>1, <2>2, <2>3, <1>1 DEF Inv, RequestInv
  <2>5. CandInv'
    BY <2>1, <1>1, NoneGo DEF Inv
  <2>6. TaskInv'
    BY <2>1, <2>2, <1>1, <1>3 DEF Inv, TaskInv, Attached
  <2> QED BY <2>4, <2>5, <2>6, <1>2 DEF Inv
<1>6. ASSUME NEW c \in CandidateId, DropCandidate(c) PROVE Inv'
  <2>1. /\ UNCHANGED <<request, reqFile, late>>
        /\ cand' = Without(cand, {c}) /\ candFile' = Without(candFile, {c})
    BY <1>6 DEF DropCandidate, history
  <2>2. /\ DOMAIN cand' = DOMAIN cand \ {c} /\ DOMAIN candFile' = DOMAIN candFile \ {c}
        /\ \A x \in DOMAIN cand' : cand'[x] = cand[x]
        /\ \A x \in DOMAIN candFile' : candFile'[x] = candFile[x]
    BY <2>1 DEF Without
  <2>3. CandInv'
    BY <2>2, <1>1, SomeGo DEF Inv
  <2>4. RequestInv'
    BY <2>1, <1>1, Frames DEF Inv
  <2>5. TaskInv'
    BY <2>1, <2>2, <1>1, <1>3 DEF Inv, TaskInv, Attached
  <2> QED BY <2>3, <2>4, <2>5, <1>2 DEF Inv
<1> QED BY <1>4, <1>5, <1>6 DEF Routes

LEMMA ScanStep ==
  ASSUME Inv, Scan
  PROVE  Inv'
<1>1. /\ UNCHANGED <<listed, title, version, request, reqFile, proposal, task, late, missing>>
      /\ task' = Idle
  BY DEF Scan
<1>2. CandInv'
  BY ScanCandidates DEF Inv
<1> QED BY <1>1, <1>2, Frames, IdleTask DEF Inv

LEMMA DetachStep ==
  ASSUME Inv, DetachAll
  PROVE  Inv'
<1>1. /\ UNCHANGED <<listed, title, proposal, home, missing>> /\ version' = Empty
      /\ task' = [at |-> "starting", resync |-> TRUE]
  BY DEF DetachAll
<1>2. VersionInv'
  <2>1. DOMAIN version' = {} /\ version' = [x \in {} |-> Null] /\ 0 \in Nat
    BY <1>1 DEF Empty
  <2> QED BY <2>1 DEF VersionInv
<1>3. TaskInv'
  BY <1>1 DEF TaskInv, Starting, Detaching
<1> QED BY <1>1, <1>2, <1>3, DetachedCandidates, DetachedRequests, Frames DEF Inv

LEMMA UpsertStep ==
  ASSUME Inv, NEW t \in Title, UpsertTitle(t)
  PROVE  Inv'
<1>1. /\ UNCHANGED <<listed, proposal, late, missing>> /\ task.at = "upserting"
      /\ task' = [task EXCEPT !.todo = @ \ {t}] /\ title' = [title EXCEPT ![t] = "live"]
  BY DEF UpsertTitle
<1>2. task \in Syncing
  BY <1>1, TaskKinds DEF Inv
<1>3. task.inventory \subseteq File
  BY <1>2 DEF Syncing
<1>4. task' \in Syncing /\ task'.at = "upserting"
  BY <1>1, <1>2 DEF Syncing
<1>5. TaskInv'
  BY <1>4, SyncingTask
<1>6. title' \in [Title -> {"absent", "live", "removed"}]
  BY <1>1 DEF Inv
<1>7. VersionInv' /\ CandInv' /\ RequestInv'
  BY <1>3, UpsertedRows, UpsertedCandidates, UpsertedRequests DEF Inv
<1> QED BY <1>1, <1>5, <1>6, <1>7, Frames DEF Inv

\* The soft deletions take the candidates of their titles along.
LEMMA FinishStep ==
  ASSUME Inv, FinishTitles
  PROVE  Inv'
<1>1. /\ UNCHANGED <<listed, version, request, reqFile, home, late>>
      /\ task.at = "upserting" /\ task' = [task EXCEPT !.at = "restoring"]
  BY DEF FinishTitles
<1>2. task \in Syncing
  BY <1>1, TaskKinds DEF Inv
<1>3. TaskInv'
  <2>1. task' \in Syncing /\ task'.at = "restoring"
    BY <1>1, <1>2 DEF Syncing
  <2> QED BY <2>1, SyncingTask
<1>4. VersionInv' /\ RequestInv'
  BY <1>1, Frames DEF Inv
<1>5. CASE task.resync
  <2>1. UNCHANGED <<title, cand, candFile, proposal, missing>>
    BY <1>5 DEF FinishTitles
  <2> QED BY <2>1, <1>1, <1>3, <1>4, NoneGo, Frames DEF Inv
<1>6. CASE ~task.resync
  <2> DEFINE rows == Unmatched
             gone == IF Blocked(rows) THEN {} ELSE rows
             dropped == {c \in DOMAIN cand : cand[c].title \in gone}
  <2>1. /\ proposal' = Proposal(rows) /\ missing' = rows
        /\ title' = [t \in Title |-> IF t \in gone THEN "removed" ELSE title[t]]
        /\ cand' = Without(cand, dropped) /\ candFile' = Without(candFile, dropped)
    BY <1>6 DEF FinishTitles, SoftDelete, ApplySoftDeletes
  <2>2. rows \subseteq Title
    BY <1>2 DEF Unmatched, Syncing
  <2>3. GuardInv'
    BY <2>1, <2>2 DEF GuardInv, Proposal, NoProposal
  <2>4. title' \in [Title -> {"absent", "live", "removed"}]
    BY <2>1 DEF Inv
  <2>5. CandInv'
    <3>1. /\ DOMAIN cand' = DOMAIN cand \ dropped
          /\ \A c \in DOMAIN cand' : cand'[c] = cand[c]
          /\ DOMAIN candFile' = DOMAIN candFile \ dropped
          /\ \A c \in DOMAIN candFile' : candFile'[c] = candFile[c]
      BY <2>1 DEF Without
    <3> QED BY <3>1, <1>1, SomeGo DEF Inv
  <2> QED BY <2>3, <2>4, <2>5, <1>1, <1>3, <1>4 DEF Inv
<1> QED BY <1>5, <1>6

LEMMA RestoreStep ==
  ASSUME Inv, RestoreScopes
  PROVE  Inv'
<1> DEFINE S == Matched \cup {t \in task.known : title[t] = "removed"}
<1>1. /\ UNCHANGED <<listed, title, version, proposal, home, late, missing>>
      /\ task' = Idle /\ Restored(S, title, cand, candFile)
  BY DEF RestoreScopes, history
<1>2. CandInv'
  <2>1. DOMAIN candFile = DOMAIN candFile \cap DOMAIN cand
    BY DEF Inv, CandInv
  <2> HIDE DEF S
  <2> QED BY <2>1, <1>1, RestoredCandidates DEF Inv
<1> HIDE DEF S
<1>3. RequestInv'
  BY <1>1, RestoredRequests DEF Inv
<1> QED BY <1>1, <1>2, <1>3, Frames, IdleTask DEF Inv

LEMMA EmptyStep ==
  ASSUME Inv, ReconcileEmptyInventory
  PROVE  Inv'
<1> DEFINE rows == Live
           after == IF Blocked(rows) THEN title
                    ELSE [t \in Title |-> IF t \in rows THEN "removed" ELSE title[t]]
           dropped == IF Blocked(rows) THEN {}
                      ELSE {c \in DOMAIN cand : cand[c].title \in rows}
           S == {t \in Title : after[t] = "removed"}
           cands == Without(cand, dropped)
           ids == Without(candFile, dropped)
<1>1. /\ UNCHANGED <<listed, version, home, late>> /\ task' = Idle
      /\ proposal' = Proposal(rows) /\ missing' = rows /\ title' = after
      /\ Restored(S, after, cands, ids)
  BY DEF ReconcileEmptyInventory
<1>2. title' \in [Title -> {"absent", "live", "removed"}]
  BY <1>1 DEF Inv
<1>3. GuardInv'
  BY <1>1 DEF GuardInv, Proposal, NoProposal, Live
<1>4. /\ DOMAIN cands \subseteq DOMAIN cand
      /\ \A c \in DOMAIN cands : cands[c] = cand[c]
      /\ DOMAIN ids = DOMAIN candFile \cap DOMAIN cands
      /\ \A c \in DOMAIN ids : ids[c] = candFile[c]
  BY DEF Without, Inv, CandInv
<1> HIDE DEF S, after, cands, ids, dropped, rows
<1>5. CandInv'
  BY <1>1, <1>4, RestoredCandidates DEF Inv
<1>6. RequestInv'
  BY <1>1, RestoredRequests DEF Inv
<1> QED BY <1>1, <1>2, <1>3, <1>5, <1>6, Frames, IdleTask DEF Inv

LEMMA NextInv == Inv /\ [Next]_vars => Inv'
<1> SUFFICES ASSUME Inv, [Next]_vars PROVE Inv'
  OBVIOUS
<1>1. CASE StartSync \/ StartResync \/ InventoryChanges \/ InventoryUnavailable \/ TaskFails
  BY <1>1, TaskSteps
<1>2. CASE SyncStep
  <2>1. CASE GatherMovies \/ DetachRefused
    BY <2>1, TaskSteps
  <2>2. CASE \E t \in Title : UpsertTitle(t)
    BY <2>2, UpsertStep
  <2>3. CASE FinishTitles \/ RestoreScopes \/ ReconcileEmptyInventory \/ DetachAll
    BY <2>3, FinishStep, RestoreStep, EmptyStep, DetachStep
  <2> QED BY <1>2, <2>1, <2>2, <2>3 DEF SyncStep
<1>3. CASE Scan
  BY <1>3, ScanStep
<1>4. CASE Routes
  BY <1>4, RouteSteps
<1>5. CASE UNCHANGED vars
  <2>1. UNCHANGED <<listed, title, version, cand, request, candFile, reqFile, proposal,
                    task, home, late, missing>>
    BY <1>5 DEF vars, rowVars, history
  <2>2. TaskInv'
    BY <2>1 DEF Inv, TaskInv, Attached, Live
  <2> QED BY <2>1, <2>2, NoneGo, Frames DEF Inv
<1> QED BY <1>1, <1>2, <1>3, <1>4, <1>5 DEF Next

LEMMA Invariance == Spec => []Inv
BY InitInv, NextInv, PTL DEF Spec

-----------------------------------------------------------------------------
\* Every variable stays in its type; a candidate's or a request's version is a row.
THEOREM TypeCorrect == Spec => []TypeOK
<1>1. Inv => TypeOK
  <2> SUFFICES ASSUME Inv PROVE TypeOK
    OBVIOUS
  <2>1. \A c \in Attached : cand[c].version \in DOMAIN version
    BY Attachment DEF Inv, Sitting
  <2> QED BY <2>1 DEF Inv, TypeOK, VersionInv, CandInv, RequestInv, GuardInv
<1> QED BY <1>1, Invariance, PTL

\* However often a resync fails, a candidate or a request for one file is never
\* left as one for the whole movie.
THEOREM ScopesHold == Spec => []ScopeNeverBroadens
<1>1. Inv => ScopeNeverBroadens
  <2> SUFFICES ASSUME Inv PROVE ScopeNeverBroadens
    OBVIOUS
  <2>1. \A c \in DOMAIN cand : cand[c].version = Null => c \in Parked
    BY Attachment DEF Inv, CandInv, Attached
  <2>2. \A c \in Parked : cand[c].title = Null /\ c \in DOMAIN candFile
    BY DEF Parked, NoTarget
  <2> QED BY <2>1, <2>2 DEF Inv, RequestInv, ScopeNeverBroadens
<1> QED BY <1>1, Invariance, PTL

\* A candidate is for the file its rules selected, and alone for it, through
\* resyncs, renames, recycled row ids and failures.
THEOREM CandidatesKeepTheirFiles == Spec => []CandidateKeepsItsFile
<1>1. Inv => CandidateKeepsItsFile
  <2> SUFFICES ASSUME Inv PROVE CandidateKeepsItsFile
    OBVIOUS
  <2>1. /\ Attached = Sitting /\ DOMAIN cand = Sitting \cup Parked
        /\ Sitting \cap Parked = {} /\ OneCandidatePerFile
    BY Attachment DEF Inv, CandInv
  <2>2. ASSUME NEW c \in Sitting
        PROVE  version[cand[c].version] = home[c] /\ c \notin DOMAIN candFile
    BY DEF Sitting
  <2>3. ASSUME NEW c \in Parked PROVE candFile[c].file = home[c]
    BY DEF Parked
  <2> QED BY <2>1, <2>2, <2>3 DEF CandidateKeepsItsFile
<1> QED BY <1>1, Invariance, PTL

-----------------------------------------------------------------------------
(***************************************************************************)
(* The guard.                                                              *)
(***************************************************************************)
\* What passes it at once is no large share, or was proposed by the last run.
LEMMA PassesTheGuard ==
  ASSUME Inv, task \in Syncing, NEW rows \in SUBSET Title, ~Blocked(rows), rows # {},
         Cardinality(Live \cap task.known) >= MinLibrary,
         2 * Cardinality(rows) > Cardinality(Live \cap task.known)
  PROVE  rows = missing
<1>1. Live \cap task.known = {t \in task.known : title[t] = "live"}
  BY DEF Live, Syncing
<1>2. proposal = rows
  BY <1>1 DEF Blocked, SoftDeleteGuardTripped
<1> QED BY <1>2 DEF Inv, GuardInv, NoProposal

\* A run that would remove more than half of what it found removes only what was
\* missing when the guard was last asked, too.
THEOREM RemovalsAreConfirmed == Spec => LargeRemovalIsConfirmed
<1> DEFINE removed == {t \in Live : title'[t] = "removed"}
           found == Live \cap task.known
           Confirmed == removed # {} /\ Cardinality(found) >= MinLibrary
                          /\ 2 * Cardinality(removed) > Cardinality(found)
                        => removed = missing
<1>1. Inv /\ [Next]_vars => Confirmed
  <2> SUFFICES ASSUME Inv, [Next]_vars PROVE Confirmed
    OBVIOUS
  <2>1. ASSUME UNCHANGED title PROVE Confirmed
    BY <2>1 DEF Live
  <2>2. ASSUME NEW t \in Title, UpsertTitle(t) PROVE Confirmed
    <3>1. title' = [title EXCEPT ![t] = "live"]
      BY <2>2 DEF UpsertTitle
    <3>2. removed = {}
      BY <3>1 DEF Live, Inv
    <3> QED BY <3>2
  <2>3. ASSUME FinishTitles PROVE Confirmed
    <3>1. task \in Syncing
      BY <2>3, TaskKinds DEF FinishTitles, Inv
    <3>2. CASE task.resync
      BY <2>1, <2>3, <3>2 DEF FinishTitles
    <3>3. CASE ~task.resync
      <4> DEFINE gone == IF Blocked(Unmatched) THEN {} ELSE Unmatched
      <4>1. title' = [t \in Title |-> IF t \in gone THEN "removed" ELSE title[t]]
        BY <2>3, <3>3 DEF FinishTitles, SoftDelete, ApplySoftDeletes
      <4>2. gone \subseteq Live /\ Unmatched \subseteq Title
        BY <3>1 DEF Unmatched, Live, Syncing
      <4>3. removed = gone
        BY <4>1, <4>2 DEF Live
      <4> HIDE DEF removed
      <4> QED BY <4>2, <4>3, <3>1, PassesTheGuard
    <3> QED BY <3>2, <3>3
  <2>4. ASSUME ReconcileEmptyInventory PROVE Confirmed
    <3>1. task \in Syncing
      BY <2>4, TaskKinds DEF ReconcileEmptyInventory, Inv
    <3>2. title' = IF Blocked(Live) THEN title
                   ELSE [t \in Title |-> IF t \in Live THEN "removed" ELSE title[t]]
      BY <2>4 DEF ReconcileEmptyInventory
    <3>3. removed = IF Blocked(Live) THEN {} ELSE Live
      BY <3>2 DEF Live
    <3>4. Live \subseteq Title
      BY DEF Live
    <3> HIDE DEF removed
    <3> QED BY <3>1, <3>3, <3>4, PassesTheGuard
  <2>5. \/ UNCHANGED title \/ \E t \in Title : UpsertTitle(t)
        \/ FinishTitles \/ ReconcileEmptyInventory
    BY DEF Next, StartSync, StartResync, SyncStep, Scan, Routes, InventoryChanges,
       InventoryUnavailable, TaskFails, GatherMovies, RestoreScopes, DetachAll,
       DetachRefused, FileRequest, WithdrawRequest, DropCandidate, vars, rowVars
  <2> QED BY <2>1, <2>2, <2>3, <2>4, <2>5
<1> QED BY <1>1, Invariance, PTL DEF Spec, LargeRemovalIsConfirmed
=============================================================================

----------------------------- MODULE WebsiteProofs -----------------------------
(***************************************************************************)
(* What a build that reports success has done, for any languages and any   *)
(* number of builds, whatever failed or was interrupted before; and which  *)
(* link of the sidebar is highlighted, for any pages and any number of     *)
(* pending timers.                                                         *)
(***************************************************************************)
EXTENDS Website, FiniteSetTheorems, WellFoundedInduction, TLAPS

------------------------------------------------------------------------------
(* The build.  The shell of the loop is in the root only as long as no     *)
(* command of a list has failed behind its cd.  So the invariant speaks of *)
(* a loop that is in the root, or in the directory of the language it has  *)
(* reached: there, what the loop has passed is settled.                    *)

InLoop == {"cd", "revision", "book", "book clean", "cd back", "mv", "next"}

InDirectory == {"revision", "book", "book clean", "cd back"}

\* The book of target t in language l is published, and nothing of it is left,
\* unless its own cd or mv has failed.
Settled(t, l) ==
    /\ <<t, l>> \in skipped \cup unmoved \/ (public[t][l] = build /\ made[t][l] = 0)
    /\ t = "epub" => <<t, l>> \in skipped \/ meta[l] = 0

\* The mv of the last language decides on the status of the loop.
AllSettled(t) ==
    /\ \A i \in DOMAIN Langs : Settled(t, Langs[i])
    /\ <<t, Langs[Len(Langs)]>> \notin unmoved

SettledTo(m) == \A i \in DOMAIN Langs : i <= m => Settled(target, Langs[i])

BuildType ==
    /\ build \in Nat
    /\ target \in B!Targets
    /\ k \in DOMAIN Langs
    /\ public \in [B!Targets -> [B!LangSet -> Nat]]
    /\ made \in [B!Targets -> [B!LangSet -> Nat]]
    /\ meta \in [B!LangSet -> Nat]

\* make goes through the website, the pdf and the epub in this order.
Stages ==
    /\ at # "idle" => build > 0 /\ result = "none"
    /\ at \in InLoop \cup {"books"} =>
           site = build /\ (target = "epub" => AllSettled("pdf"))
    /\ at \notin InLoop \cup {"books", "idle"} => target = "pdf"
    /\ result = "success" => site = build /\ AllSettled("pdf") /\ AllSettled("epub")

\* What the loop has passed is settled, unless it is lost in a directory.
LoopKeeps ==
    /\ at = "cd" /\ cwd = "root" => SettledTo(k - 1)
    /\ at \in InDirectory => cwd = Langs[k] /\ SettledTo(k - 1)
    /\ at \in {"book clean", "cd back"} => made[target][Langs[k]] = build
    /\ at = "cd back" /\ target = "epub" => meta[Langs[k]] = 0
    /\ at = "mv" /\ cwd = "root" =>
           /\ SettledTo(k - 1)
           /\ \/ <<target, Langs[k]>> \in skipped
              \/ /\ made[target][Langs[k]] = build
                 /\ target = "epub" => meta[Langs[k]] = 0
    /\ at = "next" => (status => cwd = "root") /\ (cwd = "root" => SettledTo(k))

\* Which mv may have failed by now: none that is still to come, and that of the
\* language reached only if the status tells.
Moved ==
    at # "idle" =>
        /\ \A i \in DOMAIN Langs : <<target, Langs[i]>> \in unmoved =>
               /\ at \in InLoop
               /\ i < k \/ (i = k /\ at = "next" /\ ~status)
        /\ target = "pdf" => \A i \in DOMAIN Langs : <<"epub", Langs[i]>> \notin unmoved

BuildInv == BuildType /\ Stages /\ LoopKeeps /\ Moved

------------------------------------------------------------------------------
LEMMA LangsType ==
    /\ DOMAIN Langs = 1..Len(Langs) /\ Len(Langs) \in Nat \ {0}
    /\ \A i \in DOMAIN Langs : Langs[i] \in B!LangSet /\ Langs[i] # "root"
    /\ \A i, j \in DOMAIN Langs : Langs[i] = Langs[j] => i = j
<1>1. Langs \in Seq(STRING \ {"root"}) /\ Langs # <<>>
  BY LangsAssumption
<1>2. DOMAIN Langs = 1..Len(Langs) /\ Len(Langs) \in Nat
      /\ \A i \in DOMAIN Langs : Langs[i] \in STRING \ {"root"}
  BY <1>1
<1>3. Len(Langs) # 0
  BY <1>1
<1> QED BY <1>2, <1>3, LangsAssumption DEF B!LangSet

\* With a build that reports success every book is settled.
LEMMA BuildImplies == BuildInv => FailureReported /\ LeavesNothing
<1> SUFFICES ASSUME BuildInv, result = "success" PROVE FailureReported /\ LeavesNothing
  BY DEF FailureReported, LeavesNothing, B!FailureReported, B!LeavesNothing
<1>1. site = build /\ AllSettled("pdf") /\ AllSettled("epub")
  BY DEF BuildInv, Stages
<1>2. \A t \in B!Targets, l \in B!LangSet : Settled(t, l)
  BY <1>1 DEF AllSettled, B!Targets, B!LangSet
<1>3. \A t \in B!Targets : <<t, Langs[Len(Langs)]>> \notin unmoved
  BY <1>1 DEF AllSettled, B!Targets
<1>4. B!FailureReported
  BY <1>1, <1>2, <1>3 DEF B!FailureReported, Settled
<1>5. B!LeavesNothing
  BY <1>2 DEF B!LeavesNothing, B!Targets, Settled
<1> QED BY <1>4, <1>5 DEF FailureReported, LeavesNothing

LEMMA BuildInit == Init => BuildInv
<1> SUFFICES ASSUME B!Init PROVE BuildInv
  BY DEF Init
<1>1. BuildType
  BY LangsType DEF B!Init, BuildType, B!Nothing, B!Targets
<1> QED BY <1>1 DEF B!Init, BuildInv, Stages, LoopKeeps, Moved, InLoop, InDirectory

------------------------------------------------------------------------------
(* One lemma per action, or per group of actions that do the same.         *)

LEMMA EndsKeep ==
    ASSUME BuildInv, B!Make \/ B!Interrupt \/ B!Clean \/ B!SiteFails PROVE BuildInv'
<1>1. /\ target' \in {target, "pdf"} /\ k' = k /\ made' = made /\ meta' = meta
      /\ public' \in {public, B!Nothing} /\ build' \in {build, build + 1}
      /\ result' # "success" /\ at' \in {"idle", "site clean"}
      /\ at' = "site clean" => /\ build' = build + 1 /\ target' = "pdf" /\ result' = "none"
                               /\ unmoved' = {}
  BY DEF B!Make, B!Interrupt, B!Clean, B!SiteFails, B!End, B!Idle, B!loop, B!files
<1>2. BuildType
  BY DEF BuildInv
<1>3. build' \in Nat /\ (at' = "site clean" => build' > 0)
  <2>1. build \in Nat
    BY <1>2 DEF BuildType
  <2>2. build + 1 \in Nat /\ build + 1 > 0
    BY <2>1
  <2> QED BY <1>1, <2>1, <2>2, Zenon
<1>4. BuildType'
  <2>1. public' \in [B!Targets -> [B!LangSet -> Nat]]
    <3>1. public \in [B!Targets -> [B!LangSet -> Nat]]
      BY <1>2 DEF BuildType
    <3>2. B!Nothing \in [B!Targets -> [B!LangSet -> Nat]]
      BY DEF B!Nothing
    <3>3. public' = public \/ public' = B!Nothing
      BY <1>1
    <3> QED BY <3>1, <3>2, <3>3
  <2>2. target' \in B!Targets
    BY <1>1, <1>2 DEF BuildType, B!Targets
  <2> QED BY <1>1, <1>2, <1>3, <2>1, <2>2 DEF BuildType
<1>5. Stages'
  BY <1>1, <1>3 DEF Stages, InLoop
<1>6. LoopKeeps' /\ Moved'
  BY <1>1 DEF LoopKeeps, InDirectory, Moved
<1> QED BY <1>4, <1>5, <1>6 DEF BuildInv

LEMMA SiteKeeps ==
    ASSUME BuildInv, B!SiteClean \/ B!SiteInstall \/ B!SiteFilter \/ B!SiteGenerate
    PROVE  BuildInv'
<1>1. /\ build' = build /\ target' = target /\ k' = k /\ made' = made /\ meta' = meta
      /\ result' = result /\ unmoved' = unmoved
      /\ public' \in {public, B!Nothing}
      /\ at \notin InLoop \cup {"books", "idle"}
      /\ at' \notin InLoop \cup {"idle"}
      /\ at' = "books" => site' = build
  BY DEF B!SiteClean, B!SiteInstall, B!SiteFilter, B!SiteGenerate, B!SiteCommand, B!loop, B!lost,
     InLoop
<1>2. BuildType'
  BY <1>1 DEF BuildInv, BuildType, B!Nothing
<1>3. target = "pdf" /\ result = "none" /\ build > 0
  BY <1>1 DEF BuildInv, Stages
<1>4. Stages' /\ LoopKeeps'
  BY <1>1, <1>3 DEF BuildInv, Stages, LoopKeeps, InLoop, InDirectory
<1>5. Moved'
  BY <1>1 DEF BuildInv, Moved
<1> QED BY <1>2, <1>4, <1>5 DEF BuildInv

LEMMA BooksKeeps == ASSUME BuildInv, B!Books PROVE BuildInv'
<1>1. /\ at = "books" /\ at' = "cd" /\ k' = 1 /\ cwd' = "root"
      /\ UNCHANGED <<build, target, site, public, made, meta, result, skipped, unmoved>>
  BY DEF B!Books, B!files, B!lost
<1>2. BuildType'
  BY <1>1, LangsType DEF BuildInv, BuildType
<1>3. SettledTo(k - 1)'
  BY <1>1, LangsType DEF SettledTo
<1>4. Stages'
  BY <1>1 DEF BuildInv, Stages, InLoop, AllSettled, Settled
<1>5. LoopKeeps'
  BY <1>1, <1>3 DEF LoopKeeps, InDirectory
<1>6. Moved'
  BY <1>1 DEF BuildInv, Moved, InLoop
<1> QED BY <1>2, <1>4, <1>5, <1>6 DEF BuildInv

\* What a step of the loop may do: only the book of the language it has reached
\* changes.
Reached ==
    /\ at \in InLoop /\ at' \in InLoop
    /\ k' = k /\ target' = target /\ build' = build /\ site' = site /\ result' = result
    /\ \A t \in B!Targets, l \in B!LangSet :
           t # target \/ l # Langs[k] => made'[t][l] = made[t][l] /\ public'[t][l] = public[t][l]
    /\ \A l \in B!LangSet : target = "pdf" \/ l # Langs[k] => meta'[l] = meta[l]
    /\ skipped \subseteq skipped'
    /\ unmoved' \in {unmoved, unmoved \cup {<<target, Langs[k]>>}}

\* It leaves what the loop has passed.
LEMMA KeepsPassed ==
    ASSUME BuildInv, Reached
    PROVE  /\ SettledTo(k - 1) => SettledTo(k - 1)'
           /\ Stages'
<1>1. k \in DOMAIN Langs /\ target \in B!Targets
  BY DEF BuildInv, BuildType
<1>2. \A i \in DOMAIN Langs : i <= k - 1 => Langs[i] # Langs[k] /\ Langs[i] \in B!LangSet
  BY <1>1, LangsType
<1>3. unmoved \subseteq unmoved' /\ skipped \subseteq skipped'
  BY DEF Reached
<1>4. ASSUME NEW i \in DOMAIN Langs, i <= k - 1, Settled(target, Langs[i])
      PROVE  Settled(target, Langs[i])'
  BY <1>1, <1>2, <1>3, <1>4 DEF Settled, Reached
<1>5. SettledTo(k - 1) => SettledTo(k - 1)'
  BY <1>4 DEF SettledTo, Reached
<1>6. ASSUME target = "epub", AllSettled("pdf") PROVE AllSettled("pdf")'
  <2>1. \A i \in DOMAIN Langs : Langs[i] \in B!LangSet
    BY LangsType
  <2>2. ASSUME NEW i \in DOMAIN Langs PROVE Settled("pdf", Langs[i])'
    BY <1>3, <1>6, <2>1 DEF AllSettled, Settled, Reached, B!Targets
  <2>3. <<"pdf", Langs[Len(Langs)]>> \notin unmoved'
    BY <1>6 DEF AllSettled, Reached
  <2> QED BY <2>2, <2>3 DEF AllSettled
<1>7. Stages'
  BY <1>6 DEF BuildInv, Stages, InLoop, Reached
<1> QED BY <1>5, <1>7

\* A step before mv.
LEMMA StillToMove ==
    ASSUME BuildInv, Reached, unmoved' = unmoved, at # "next"
    PROVE  Moved'
BY DEF BuildInv, Moved, Reached, InLoop

LEMMA EnterKeeps == ASSUME BuildInv, B!Enter PROVE BuildInv'
<1>1. /\ at = "cd" /\ at' = "revision" /\ cwd = "root" /\ cwd' = Langs[k]
      /\ UNCHANGED <<build, target, k, site, public, made, meta, result, skipped, unmoved>>
  BY DEF B!Enter, B!files, B!lost, B!Lang
<1>2. Reached
  BY <1>1 DEF Reached, InLoop
<1>3. SettledTo(k - 1)'
  BY <1>1, <1>2, KeepsPassed DEF BuildInv, LoopKeeps
<1>4. LoopKeeps'
  BY <1>1, <1>3 DEF LoopKeeps, InDirectory
<1>5. BuildType'
  BY <1>1 DEF BuildInv, BuildType
<1> QED BY <1>1, <1>2, <1>4, <1>5, KeepsPassed, StillToMove DEF BuildInv

LEMMA EnterFailsKeeps == ASSUME BuildInv, B!EnterFails PROVE BuildInv'
<1>1. /\ at = "cd" /\ at' = "mv" /\ cwd' = cwd
      /\ skipped' = (IF cwd = "root" THEN skipped \cup {<<target, Langs[k]>>} ELSE skipped)
      /\ UNCHANGED <<build, target, k, site, public, made, meta, result, unmoved>>
  BY DEF B!EnterFails, B!files, B!loop, B!Lang, B!Book
<1>2. Reached
  BY <1>1 DEF Reached, InLoop
<1>3. LoopKeeps'
  <2>1. ASSUME cwd = "root" PROVE SettledTo(k - 1)' /\ <<target, Langs[k]>> \in skipped'
    BY <1>1, <1>2, <2>1, KeepsPassed DEF BuildInv, LoopKeeps
  <2> QED BY <1>1, <2>1 DEF LoopKeeps, InDirectory
<1>4. BuildType'
  BY <1>1 DEF BuildInv, BuildType
<1> QED BY <1>1, <1>2, <1>3, <1>4, KeepsPassed, StillToMove DEF BuildInv

\* What a command in the directory of a language may write.
LEMMA Metadata ==
    ASSUME BuildInv, NEW n \in Nat
    PROVE  /\ B!Metadata(n) \in [B!LangSet -> Nat]
           /\ \A l \in B!LangSet : target = "pdf" \/ l # Langs[k] => B!Metadata(n)[l] = meta[l]
           /\ target = "epub" => B!Metadata(n)[Langs[k]] = n
<1>1. meta \in [B!LangSet -> Nat] /\ Langs[k] \in B!LangSet /\ target \in {"pdf", "epub"}
  BY LangsType DEF BuildInv, BuildType, B!Targets
<1> QED BY <1>1 DEF B!Metadata, B!Lang

LEMMA Compiled ==
    ASSUME BuildInv
    PROVE  /\ B!Compiled \in [B!Targets -> [B!LangSet -> Nat]]
           /\ B!Compiled[target][Langs[k]] = build
           /\ \A t \in B!Targets, l \in B!LangSet :
                  t # target \/ l # Langs[k] => B!Compiled[t][l] = made[t][l]
<1>1. /\ made \in [B!Targets -> [B!LangSet -> Nat]] /\ Langs[k] \in B!LangSet
      /\ target \in B!Targets /\ build \in Nat
  BY LangsType DEF BuildInv, BuildType
<1> QED BY <1>1 DEF B!Compiled, B!Lang

LEMMA Written ==
    ASSUME BuildInv
    PROVE  /\ B!Written \in [B!LangSet -> Nat]
           /\ \A l \in B!LangSet : target = "pdf" \/ l # Langs[k] => B!Written[l] = meta[l]
<1>1. meta[Langs[k]] + 1 \in Nat
  BY LangsType DEF BuildInv, BuildType
<1> QED BY <1>1, Metadata DEF B!Written, B!Lang

\* Each command of the list behind its cd, when it succeeds.
LEMMA CommandsKeep ==
    ASSUME BuildInv, B!Revision \/ B!Compile \/ B!CleanBook \/ B!Back PROVE BuildInv'
<1>1. /\ at \in InDirectory /\ at' \in {"book", "book clean", "cd back", "mv"}
      /\ UNCHANGED <<build, target, k, site, public, result, skipped, unmoved>>
      /\ at' = "book" => made' = made /\ meta' = B!Written /\ cwd' = cwd
      /\ at' = "book clean" => made' = B!Compiled /\ meta' = B!Metadata(0) /\ cwd' = cwd
      /\ at' = "cd back" => at = "book clean" /\ made' = made /\ meta' = B!Metadata(0) /\ cwd' = cwd
      /\ at' = "mv" => at = "cd back" /\ made' = made /\ meta' = meta
  BY DEF B!Revision, B!Compile, B!CleanBook, B!Back, B!Command, B!lost, InDirectory
<1>2. BuildType /\ 0 \in Nat
  BY DEF BuildInv
<1>3. /\ made' \in [B!Targets -> [B!LangSet -> Nat]] /\ meta' \in [B!LangSet -> Nat]
      /\ \A t \in B!Targets, l \in B!LangSet :
             t # target \/ l # Langs[k] => made'[t][l] = made[t][l]
      /\ \A l \in B!LangSet : target = "pdf" \/ l # Langs[k] => meta'[l] = meta[l]
  <2>1. meta' \in {meta, B!Written, B!Metadata(0)} /\ made' \in {made, B!Compiled}
    BY <1>1
  <2>2. made \in [B!Targets -> [B!LangSet -> Nat]] /\ meta \in [B!LangSet -> Nat]
    BY <1>2 DEF BuildType
  <2> QED BY <1>2, <2>1, <2>2, Written, Compiled, Metadata
<1>4. Reached
  BY <1>1, <1>3 DEF Reached, InLoop, InDirectory
<1>5. SettledTo(k - 1)' /\ cwd = Langs[k]
  BY <1>1, <1>4, KeepsPassed DEF BuildInv, LoopKeeps
<1>6. ASSUME at' = "book" PROVE LoopKeeps'
  BY <1>1, <1>5, <1>6 DEF LoopKeeps, InDirectory
<1>7. ASSUME at' = "book clean" PROVE LoopKeeps'
  BY <1>1, <1>5, <1>7, Compiled DEF LoopKeeps, InDirectory
<1>8. ASSUME at' = "cd back" PROVE LoopKeeps'
  <2>1. made'[target][Langs[k]] = build /\ (target = "epub" => meta'[Langs[k]] = 0)
    BY <1>1, <1>2, <1>8, Metadata DEF BuildInv, LoopKeeps
  <2> QED BY <1>1, <1>5, <1>8, <2>1 DEF LoopKeeps, InDirectory
<1>9. ASSUME at' = "mv" PROVE LoopKeeps'
  <2>1. made'[target][Langs[k]] = build /\ (target = "epub" => meta'[Langs[k]] = 0)
    BY <1>1, <1>9 DEF BuildInv, LoopKeeps
  <2> QED BY <1>1, <1>5, <1>9, <2>1 DEF LoopKeeps, InDirectory
<1>10. LoopKeeps'
  BY <1>1, <1>6, <1>7, <1>8, <1>9
<1>11. BuildType'
  BY <1>1, <1>2, <1>3 DEF BuildType
<1> QED BY <1>1, <1>4, <1>10, <1>11, KeepsPassed, StillToMove DEF BuildInv, InDirectory

\* When one fails the loop is lost in the directory.
LEMMA CommandFailsKeeps == ASSUME BuildInv, B!CommandFails PROVE BuildInv'
<1>1. /\ at \in InDirectory /\ at' = "mv" /\ cwd' = cwd
      /\ UNCHANGED <<build, target, k, site, public, result, skipped, unmoved>>
      /\ made' \in {made, B!Compiled} /\ meta' \in {meta, B!Written, B!Metadata(0)}
  BY DEF B!CommandFails, B!FailsIn, B!Command, B!lost, InDirectory
<1>2. BuildType /\ 0 \in Nat
  BY DEF BuildInv
<1>3. /\ made' \in [B!Targets -> [B!LangSet -> Nat]] /\ meta' \in [B!LangSet -> Nat]
      /\ \A t \in B!Targets, l \in B!LangSet :
             t # target \/ l # Langs[k] => made'[t][l] = made[t][l]
      /\ \A l \in B!LangSet : target = "pdf" \/ l # Langs[k] => meta'[l] = meta[l]
  <2>1. made \in [B!Targets -> [B!LangSet -> Nat]] /\ meta \in [B!LangSet -> Nat]
    BY <1>2 DEF BuildType
  <2> QED BY <1>1, <1>2, <2>1, Written, Compiled, Metadata
<1>4. Reached
  BY <1>1, <1>3 DEF Reached, InLoop, InDirectory
<1>5. cwd' # "root"
  BY <1>1, <1>2, LangsType DEF BuildInv, BuildType, LoopKeeps
<1>6. LoopKeeps'
  BY <1>1, <1>5 DEF LoopKeeps, InDirectory
<1>7. BuildType'
  BY <1>1, <1>2, <1>3 DEF BuildType
<1> QED BY <1>1, <1>4, <1>6, <1>7, KeepsPassed, StillToMove DEF BuildInv, InDirectory

\* mv settles the language, or counts among the failures that are known.
LEMMA MvKeeps == ASSUME BuildInv, B!Mv \/ B!MvFails PROVE BuildInv'
<1> DEFINE b == <<target, Langs[k]>>
<1>0. BuildType /\ k \in DOMAIN Langs /\ Langs[k] \in B!LangSet /\ target \in B!Targets /\ build > 0
  BY LangsType DEF BuildInv, BuildType, Stages, B!Mv, B!MvThen, B!MvFails
<1>1. /\ at = "mv" /\ at' = "next" /\ k' = k /\ cwd' = cwd
      /\ UNCHANGED <<build, target, site, meta, result, skipped>>
  BY DEF B!Mv, B!MvThen, B!MvFails, B!files, B!lost
<1>2. \/ /\ cwd = "root" /\ made[target][Langs[k]] # 0 /\ status' = TRUE /\ unmoved' = unmoved
         /\ public' = [public EXCEPT ![target][Langs[k]] = made[target][Langs[k]]]
         /\ made' = [made EXCEPT ![target][Langs[k]] = 0]
      \/ /\ status' = FALSE /\ public' = public /\ made' = made
         /\ unmoved' = IF cwd = "root" /\ made[target][Langs[k]] # 0 THEN unmoved \cup {b} ELSE unmoved
  BY DEF B!Mv, B!MvThen, B!MvFails, B!Movable, B!Lang, B!Book, B!files, B!lost
<1>3. BuildType'
  <2>1. /\ public \in [B!Targets -> [B!LangSet -> Nat]] /\ made \in [B!Targets -> [B!LangSet -> Nat]]
        /\ made[target][Langs[k]] \in Nat
    BY <1>0 DEF BuildType
  <2>2. [public EXCEPT ![target][Langs[k]] = made[target][Langs[k]]] \in [B!Targets -> [B!LangSet -> Nat]]
    BY <1>0, <2>1
  <2>3. [made EXCEPT ![target][Langs[k]] = 0] \in [B!Targets -> [B!LangSet -> Nat]]
    BY <1>0, <2>1
  <2>4. public' \in [B!Targets -> [B!LangSet -> Nat]] /\ made' \in [B!Targets -> [B!LangSet -> Nat]]
    BY <1>2, <2>1, <2>2, <2>3
  <2> QED BY <1>0, <1>1, <2>4 DEF BuildType
<1>4. \A t \in B!Targets, l \in B!LangSet :
          t # target \/ l # Langs[k] => made'[t][l] = made[t][l] /\ public'[t][l] = public[t][l]
  BY <1>0, <1>2 DEF BuildType
<1>5. Reached
  <2>1. unmoved' \in {unmoved, unmoved \cup {b}}
    BY <1>2
  <2> QED BY <1>1, <1>4, <2>1 DEF Reached, InLoop
<1>6. ASSUME cwd = "root" PROVE SettledTo(k)'
  <2>1. /\ SettledTo(k - 1)'
        /\ b \in skipped \/ made[target][Langs[k]] = build
        /\ target = "epub" => b \in skipped \/ meta[Langs[k]] = 0
    BY <1>1, <1>5, <1>6, KeepsPassed DEF BuildInv, LoopKeeps
  <2>2. b \in skipped' \cup unmoved' \/ (public'[target][Langs[k]] = build /\ made'[target][Langs[k]] = 0)
    <3>1. CASE b \in skipped
      BY <1>1, <3>1
    <3>2. CASE made[target][Langs[k]] = build
      <4>1. build # 0
        BY <1>0
      <4> QED BY <1>0, <1>2, <1>6, <3>2, <4>1 DEF BuildType
    <3> QED BY <2>1, <3>1, <3>2
  <2>3. Settled(target, Langs[k])'
    BY <1>1, <2>1, <2>2 DEF Settled
  <2>4. \A i \in DOMAIN Langs : i <= k => i = k \/ i <= k - 1
    BY <1>0, LangsType
  <2> QED BY <1>1, <2>1, <2>3, <2>4 DEF SettledTo
<1>7. LoopKeeps'
  <2>1. status' => cwd = "root"
    BY <1>2
  <2> QED BY <1>1, <1>6, <2>1 DEF LoopKeeps, InDirectory
<1>8. Moved'
  <2>1. ASSUME NEW i \in DOMAIN Langs, <<target, Langs[i]>> \in unmoved'
        PROVE  i < k \/ (i = k /\ ~status')
    <3>1. CASE <<target, Langs[i]>> \in unmoved
      BY <1>1, <3>1 DEF BuildInv, Moved
    <3>2. CASE <<target, Langs[i]>> \notin unmoved
      <4>1. <<target, Langs[i]>> = b /\ ~status'
        BY <1>2, <2>1, <3>2
      <4> QED BY <1>0, <4>1, LangsType
    <3> QED BY <3>1, <3>2
  <2>2. target = "pdf" => \A i \in DOMAIN Langs : <<"epub", Langs[i]>> \notin unmoved'
    BY <1>1, <1>2 DEF BuildInv, Moved
  <2> QED BY <1>1, <2>1, <2>2 DEF Moved, InLoop
<1> QED BY <1>3, <1>5, <1>7, <1>8, KeepsPassed DEF BuildInv

LEMMA NextLangKeeps == ASSUME BuildInv, B!NextLang PROVE BuildInv'
<1>1. /\ at = "next" /\ k < Len(Langs) /\ k' = k + 1 /\ at' = "cd"
      /\ UNCHANGED <<build, target, cwd, status, site, public, made, meta, result, skipped, unmoved>>
  BY DEF B!NextLang, B!files, B!lost
<1>2. BuildType'
  BY <1>1, LangsType DEF BuildInv, BuildType
<1>3. k \in Nat /\ k' - 1 = k /\ DOMAIN Langs \subseteq Nat
  BY <1>1, LangsType DEF BuildInv, BuildType
<1>4. (SettledTo(k) => SettledTo(k - 1)') /\ (AllSettled("pdf") => AllSettled("pdf")')
  BY <1>1, <1>3 DEF SettledTo, AllSettled, Settled
<1>5. Stages'
  BY <1>1, <1>4 DEF BuildInv, Stages, InLoop
<1>6. LoopKeeps'
  BY <1>1, <1>4 DEF BuildInv, LoopKeeps, InDirectory
<1>7. Moved'
  <2>1. \A i \in DOMAIN Langs : i < k \/ i = k => i < k'
    BY <1>1, <1>3
  <2> QED BY <1>1, <2>1 DEF BuildInv, Moved, InLoop
<1> QED BY <1>2, <1>5, <1>6, <1>7 DEF BuildInv

LEMMA LoopEndsKeeps == ASSUME BuildInv, B!LoopEnds PROVE BuildInv'
<1>1. /\ at = "next" /\ k = Len(Langs)
      /\ UNCHANGED <<build, k, cwd, status, site, public, made, meta, skipped, unmoved>>
  BY DEF B!LoopEnds, B!files, B!lost
<1>2. target' \in B!Targets
  BY DEF B!LoopEnds, B!End, B!Targets, BuildInv, BuildType
<1>3. BuildType'
  BY <1>1, <1>2 DEF BuildInv, BuildType
<1>4. ASSUME status PROVE AllSettled(target)
  <2>1. Len(Langs) \in DOMAIN Langs /\ \A i \in DOMAIN Langs : i <= k
    BY <1>1, LangsType
  <2>2. SettledTo(k)
    BY <1>1, <1>4 DEF BuildInv, LoopKeeps
  <2>3. <<target, Langs[Len(Langs)]>> \notin unmoved
    BY <1>1, <1>4, <2>1, LangsType DEF BuildInv, Moved
  <2> QED BY <2>1, <2>2, <2>3 DEF SettledTo, AllSettled
<1>5. \A t : AllSettled(t) => AllSettled(t)'
  BY <1>1 DEF AllSettled, Settled
<1>6. CASE ~status /\ B!End("failure") /\ target' = target
  BY <1>1, <1>3, <1>6 DEF BuildInv, Stages, LoopKeeps, Moved, InLoop, InDirectory, B!End
<1>7. CASE status /\ target = "epub" /\ B!End("success") /\ target' = target
  <2>1. site = build /\ AllSettled("pdf") /\ AllSettled("epub")
    BY <1>1, <1>4, <1>7 DEF BuildInv, Stages, InLoop
  <2> QED BY <1>1, <1>3, <1>5, <1>7, <2>1
          DEF BuildInv, Stages, LoopKeeps, Moved, InLoop, InDirectory, B!End
<1>8. CASE status /\ target = "pdf" /\ at' = "books" /\ target' = "epub" /\ result' = result
  <2>1. site = build /\ AllSettled("pdf") /\ result = "none" /\ build > 0
    BY <1>1, <1>4, <1>8 DEF BuildInv, Stages, InLoop
  <2>2. Moved'
    BY <1>1, <1>8 DEF BuildInv, Moved
  <2>3. Stages' /\ LoopKeeps'
    BY <1>1, <1>5, <1>8, <2>1 DEF Stages, LoopKeeps, InLoop, InDirectory
  <2> QED BY <1>3, <2>2, <2>3 DEF BuildInv
<1> QED BY <1>6, <1>7, <1>8 DEF B!LoopEnds

LEMMA BuildNext == BuildInv /\ [Next]_vars => BuildInv'
<1> SUFFICES ASSUME BuildInv, [Next]_vars PROVE BuildInv'
  OBVIOUS
<1>1. ASSUME B!Next PROVE BuildInv'
  BY <1>1, EndsKeep, SiteKeeps, BooksKeeps, EnterKeeps, EnterFailsKeeps, CommandsKeep,
     CommandFailsKeeps, MvKeeps, NextLangKeeps, LoopEndsKeeps
  DEF B!Next, B!Site, B!BookStep
<1>2. CASE UNCHANGED books
  BY <1>2 DEF books, BuildInv, BuildType, Stages, LoopKeeps, Moved, SettledTo, AllSettled, Settled
<1>3. B!Next \/ UNCHANGED books
  BY DEF Next, vars
<1> QED BY <1>1, <1>2, <1>3

\* For any number of languages and builds: a build that reports success has
\* published, from the present source, every book but those whose own cd or mv has
\* failed; whatever else failed before it or in it would have been reported, and
\* so would the mv of the last language.
THEOREM SuccessIsPublished == Spec => []FailureReported
<1> QED BY BuildImplies, BuildInit, BuildNext, PTL DEF Spec

\* A build that reports success leaves neither a book nor metadata behind, but
\* what belongs to a book whose own cd or mv has failed.
THEOREM SuccessLeavesNothing == Spec => []LeavesNothing
<1> QED BY BuildImplies, BuildInit, BuildNext, PTL DEF Spec

------------------------------------------------------------------------------
(* The sidebar.  HighlightRight is nearly inductive: what is missing is    *)
(* that never more than one link is highlighted, for setActive() takes the *)
(* class from one link only, and that a timer means a click.               *)

SidebarType ==
    /\ page \in Pages /\ top \in Nat /\ timers \in Nat
    /\ active \subseteq S!Links
    /\ clicked \in S!Links \cup {0}
    /\ sideTop \in Int

OneLink == \A g, h \in active : g = h

SidebarInv ==
    /\ SidebarType
    /\ OneLink
    /\ animating => clicked # 0
    /\ HighlightRight

\* The least and the greatest of some numbers.
LEMMA HasMin ==
    ASSUME NEW T \in SUBSET Nat, T # {}
    PROVE  \E x \in T : \A y \in T : x <= y
<1>1. IsWellFoundedOn(OpToRel(<,Nat), Nat)
  BY NatLessThanWellFounded
<1>2. PICK x \in T : \A y \in T : ~ (<<y, x>> \in OpToRel(<,Nat))
  BY <1>1, WFMin
<1>3. \A y \in T : ~ (y < x)
  BY <1>2 DEF OpToRel
<1> QED BY <1>3

LEMMA HasMax ==
    ASSUME NEW n \in Nat, NEW T \in SUBSET (0..n), T # {}
    PROVE  \E x \in T : \A y \in T : x >= y
<1> DEFINE below == {n - x : x \in T}
<1>1. below \in SUBSET Nat /\ below # {}
  <2>1. \A x \in T : n - x \in Nat
    OBVIOUS
  <2> QED BY <2>1
<1>2. PICK z \in below : \A y \in below : z <= y
  BY <1>1, HasMin
<1>3. PICK x \in T : z = n - x
  OBVIOUS
<1>4. ASSUME NEW y \in T PROVE x >= y
  <2>1. n - x <= n - y
    BY <1>2, <1>3
  <2> QED BY <2>1
<1> QED BY <1>4

\* The links stand for positions in the page.
LEMMA LinksOfPage ==
    ASSUME page \in Pages
    PROVE  /\ Len(page) \in Nat
           /\ S!Links = S!allHeaders
           /\ S!Links \subseteq 1..Len(page)
<1>1. page \in Seq({"h2", "h3", "p"})
  BY PagesAssumption
<1> QED BY <1>1 DEF S!Links, S!allHeaders

LEMMA LinksKept == UNCHANGED page => S!Links' = S!Links
  BY DEF S!Links, S!allHeaders, S!Listed, S!HasH2

LEMMA CurrentIsLink ==
    ASSUME page \in Pages, S!Links # {}
    PROVE  S!Current \in S!Links
<1>1. /\ Len(page) \in Nat /\ S!Links = S!allHeaders /\ S!Links \in SUBSET Nat
      /\ S!Above \in SUBSET S!Links /\ S!Above \in SUBSET (0..Len(page))
  BY LinksOfPage DEF S!Above
<1>2. CASE S!Above = {}
  <2>1. \E x \in S!Links : \A y \in S!Links : x <= y
    BY <1>1, HasMin
  <2> QED BY <1>1, <1>2, <2>1 DEF S!Current, S!Min
<1>3. CASE S!Above # {}
  <2>1. \E x \in S!Above : \A y \in S!Above : x >= y
    BY <1>1, <1>3, HasMax
  <2> QED BY <1>1, <1>3, <2>1 DEF S!Current, S!Max
<1> QED BY <1>2, <1>3

LEMMA CurrentKept == UNCHANGED <<page, zoom, top>> => S!Current' = S!Current
  BY DEF S!Current, S!Above, S!OffsetTop, S!allHeaders, S!Listed, S!HasH2, S!Min, S!Max

\* setActive() leaves exactly the link that it is asked for.
LEMMA OnlyActive ==
    ASSUME SidebarType, OneLink, NEW h \in S!Links, NEW shown \in BOOLEAN,
           S!setActive(h, shown)
    PROVE  /\ active' = {h}
           /\ sideTop' = IF active' # active /\ shown THEN S!newScrollTop(h) ELSE sideTop
<1>0. S!Links \in SUBSET Nat /\ 0 \notin S!Links
  BY LinksOfPage DEF SidebarType
<1>1. CASE active = {}
  <2>1. S!previousActive = 0 /\ h # 0
    BY <1>0, <1>1 DEF S!previousActive
  <2> QED BY <1>1, <2>1 DEF S!setActive, S!activate
<1>2. ASSUME NEW g \in active, active = {g} PROVE active' = {h} /\ (h = g \/ active' # active)
  <2>1. g \in Nat
    BY <1>0 DEF SidebarType
  <2>2. S!previousActive = g
    BY <1>2, <2>1 DEF S!previousActive, S!Min
  <2> QED BY <1>2, <2>2 DEF S!setActive, S!activate
<1>3. ASSUME NEW g \in active, active = {g}
      PROVE  sideTop' = IF active' # active /\ shown THEN S!newScrollTop(h) ELSE sideTop
  <2>1. g \in Nat
    BY <1>0 DEF SidebarType
  <2>2. S!previousActive = g
    BY <1>3, <2>1 DEF S!previousActive, S!Min
  <2> QED BY <1>2, <1>3, <2>2 DEF S!setActive, S!activate
<1>4. active = {} \/ \E g \in active : active = {g}
  BY DEF OneLink
<1> QED BY <1>1, <1>2, <1>3, <1>4 DEF S!setActive, S!activate

\* Where setActive() scrolls the sidebar to, the link is in view: it is not
\* higher than the sidebar.
LEMMA ScrolledIntoView ==
    ASSUME SidebarType, NEW h \in S!Links
    PROVE  S!newScrollTop(h) \in Int /\ S!InView(h, S!newScrollTop(h))
<1> DEFINE before == {g \in S!Links : g <= h}
<1>1. before \in SUBSET (1..Len(page)) /\ Len(page) \in Nat
  BY LinksOfPage DEF SidebarType
<1>2. IsFiniteSet(1..Len(page))
  BY <1>1, FS_Interval
<1>3. Cardinality(before) \in Nat
  BY <1>1, <1>2, FS_Subset, FS_CardinalityType
<1>4. S!Cardinality(before) = Cardinality(before)
  BY DEF S!Cardinality, Cardinality
<1> HIDE DEF before
<1>5. S!LinkTop(h) = LinksBefore + Cardinality(before)
  BY <1>4 DEF S!LinkTop, before
<1>6. /\ S!LinkTop(h) \in Int /\ S!LinkTop(h) >= LinksBefore
      /\ S!LinkBottom(h) = S!LinkTop(h) + 1
      /\ LinksBefore \in Int /\ SideHeight \in Int /\ SideHeight >= 1 /\ sideTop \in Int
  BY <1>3, <1>5, PagesAssumption DEF S!LinkBottom, SidebarType
<1> QED BY <1>6 DEF S!newScrollTop, S!InView

LEMMA SidebarStart == Init => SidebarInv
<1> SUFFICES ASSUME Init PROVE SidebarInv
  OBVIOUS
<1> QED BY PagesAssumption
        DEF Init, S!Init, SidebarInv, SidebarType, OneLink, HighlightRight, S!HighlightRight

\* Steps that move neither the page nor the highlight.
LEMMA ElsewhereKeeps ==
    ASSUME SidebarInv, sideTop' \in Int,
           UNCHANGED <<page, zoom, top, due, active, animating, timers, clicked>>
    PROVE  SidebarInv'
<1>1. S!Links' = S!Links /\ S!Current' = S!Current
  BY LinksKept, CurrentKept
<1> QED BY <1>1 DEF SidebarInv, SidebarType, OneLink, HighlightRight, S!HighlightRight

LEMMA MoveKeeps == SidebarInv /\ S!Move => SidebarInv'
<1> SUFFICES ASSUME SidebarInv, S!Move PROVE SidebarInv'
  OBVIOUS
<1>1. top' \in Nat
  BY DEF S!Move, S!side, S!view
<1>2. S!Links' = S!Links
  BY LinksKept DEF S!Move, S!side, S!view
<1> QED BY <1>1, <1>2
        DEF S!Move, S!side, SidebarInv, SidebarType, OneLink, HighlightRight, S!HighlightRight

LEMMA ClickLinkKeeps ==
    ASSUME SidebarInv, NEW h \in S!Links, S!ClickLink(h)
    PROVE  SidebarInv'
<1>0. SidebarType /\ OneLink /\ h # 0
  BY LinksOfPage DEF SidebarInv, SidebarType
<1>1. active' = {h} /\ sideTop' = sideTop
  BY <1>0, OnlyActive DEF S!ClickLink, S!view
<1>2. S!Links' = S!Links
  BY LinksKept DEF S!ClickLink, S!view
<1>3. timers' \in Nat /\ timers' > 0
  BY <1>0 DEF SidebarType, S!ClickLink
<1>4. /\ animating' /\ clicked' = h /\ UNCHANGED <<page, zoom, top, due>>
  BY DEF S!ClickLink, S!view
<1> QED BY <1>0, <1>1, <1>2, <1>3, <1>4
        DEF SidebarInv, SidebarType, OneLink, HighlightRight, S!HighlightRight

LEMMA TimerKeeps == SidebarInv /\ S!TimerFires => SidebarInv'
<1> SUFFICES ASSUME SidebarInv, S!TimerFires PROVE SidebarInv'
  OBVIOUS
<1>1. S!Links' = S!Links /\ S!Current' = S!Current
  BY LinksKept, CurrentKept DEF S!TimerFires, S!view, S!side
<1>2. timers' \in Nat
  BY DEF S!TimerFires, SidebarInv, SidebarType
<1>3. ~animating' /\ UNCHANGED <<page, zoom, top, due, active, clicked, sideTop>>
  BY DEF S!TimerFires, S!view, S!side
<1> QED BY <1>1, <1>2, <1>3
        DEF SidebarInv, SidebarType, OneLink, HighlightRight, S!HighlightRight

LEMMA UpdateKeeps == SidebarInv /\ S!updateSidebar => SidebarInv'
<1> SUFFICES ASSUME SidebarInv, S!updateSidebar PROVE SidebarInv'
  OBVIOUS
<1>0. SidebarType /\ OneLink /\ S!Links = S!allHeaders
  BY LinksOfPage DEF SidebarInv, SidebarType
<1>1. /\ S!Links' = S!Links /\ S!Current' = S!Current
      /\ UNCHANGED <<page, zoom, top, animating, timers, clicked>>
  BY LinksKept, CurrentKept DEF S!updateSidebar
<1>2. CASE animating
  <2>1. UNCHANGED <<active, sideTop>> /\ active = {clicked} /\ clicked # 0
    BY <1>2 DEF S!updateSidebar, SidebarInv, HighlightRight, S!HighlightRight
  <2> QED BY <1>1, <1>2, <2>1
          DEF SidebarInv, SidebarType, OneLink, HighlightRight, S!HighlightRight
<1>3. CASE ~animating /\ S!Links = {}
  <2>1. UNCHANGED <<active, sideTop>> /\ active = {} /\ clicked = 0
    BY <1>0, <1>3 DEF S!updateSidebar, SidebarType
  <2> QED BY <1>1, <1>3, <2>1
          DEF SidebarInv, SidebarType, OneLink, HighlightRight, S!HighlightRight
<1>4. CASE ~animating /\ S!Links # {}
  <2>1. S!Current \in S!Links
    BY <1>0, <1>4, CurrentIsLink DEF SidebarType
  <2>2. S!setActive(S!Current, ~hoveredOverSidebar)
    BY <1>0, <1>4 DEF S!updateSidebar
  <2>3. active' = {S!Current} /\ sideTop' \in {S!newScrollTop(S!Current), sideTop}
    BY <1>0, <2>1, <2>2, OnlyActive
  <2>4. sideTop' \in Int
    BY <1>0, <2>1, <2>3, ScrolledIntoView DEF SidebarType
  <2> QED BY <1>1, <1>4, <2>1, <2>3, <2>4
          DEF SidebarInv, SidebarType, OneLink, HighlightRight, S!HighlightRight
<1> QED BY <1>2, <1>3, <1>4

LEMMA SidebarNext == SidebarInv /\ [Next]_vars => SidebarInv'
<1> SUFFICES ASSUME SidebarInv, [Next]_vars PROVE SidebarInv'
  OBVIOUS
<1>0. sideTop \in Int
  BY DEF SidebarInv, SidebarType
<1>1. CASE UNCHANGED browser
  BY <1>0, <1>1, ElsewhereKeeps DEF browser
<1>2. CASE \/ S!ClickMenuButton \/ S!ClickContent \/ S!TouchStart \/ S!TouchEnd
           \/ S!Hover
  <2>1. UNCHANGED <<page, zoom, top, due, active, animating, timers, clicked, sideTop>>
    BY <1>2 DEF S!ClickMenuButton, S!ClickContent, S!TouchStart, S!TouchEnd, S!Hover,
                S!view, S!side
  <2> QED BY <1>0, <2>1, ElsewhereKeeps
<1>3. CASE S!ScrollSidebar
  <2>1. UNCHANGED <<page, zoom, top, due, active, animating, timers, clicked>>
    BY <1>3 DEF S!ScrollSidebar, S!view
  <2>2. sideTop' \in Int
    BY <1>3 DEF S!ScrollSidebar
  <2> QED BY <2>1, <2>2, ElsewhereKeeps
<1>4. S!Next \/ UNCHANGED browser
  BY DEF Next, vars
<1> QED BY <1>1, <1>2, <1>3, <1>4, MoveKeeps, ClickLinkKeeps, TimerKeeps, UpdateKeeps
        DEF S!Next

\* However clicks, timers and events overlap: one link is highlighted, and once
\* no event is due it is the section in view or the last click.
THEOREM HighlightIsRight == Spec => []HighlightRight
<1>1. SidebarInv => HighlightRight
  BY DEF SidebarInv
<1> QED BY <1>1, SidebarStart, SidebarNext, PTL DEF Spec

\* A highlight that moves with the page is scrolled into view, wherever the
\* sidebar was and however many links it has.
THEOREM HighlightInView == Spec => LinkInView
<1>1. ASSUME SidebarInv, S!updateSidebar, active' # active, ~hoveredOverSidebar
      PROVE  \A h \in active' : S!InView(h, sideTop')
  <2>0. SidebarType /\ OneLink /\ S!Links = S!allHeaders
    BY <1>1, LinksOfPage DEF SidebarInv, SidebarType
  <2>1. S!Links # {} /\ S!setActive(S!Current, TRUE)
    BY <1>1, <2>0 DEF S!updateSidebar
  <2>2. S!Current \in S!Links
    BY <2>0, <2>1, CurrentIsLink DEF SidebarType
  <2>3. active' = {S!Current} /\ sideTop' = S!newScrollTop(S!Current)
    BY <1>1, <2>0, <2>1, <2>2, OnlyActive
  <2> QED BY <2>0, <2>2, <2>3, ScrolledIntoView
<1>2. SidebarInv => [S!updateSidebar /\ active' # active /\ ~hoveredOverSidebar
                       => \A h \in active' : S!InView(h, sideTop')]_S!sidebar
  BY <1>1
<1> QED BY <1>2, SidebarStart, SidebarNext, PTL DEF Spec, LinkInView, S!LinkInView

==============================================================================

------------------------------ MODULE DefaultPath ------------------------------
(***************************************************************************)
(* The function of the default resource, exercises/6/handler.hpp: which    *)
(* file of www/ a path names.  A loop erases every dot of the path but the *)
(* last one, so that "..", which would leave www/, cannot be left.         *)
(*                                                                         *)
(* A path is a sequence of characters; "." and "/" are the ones the code   *)
(* knows.  Positions count from 0, as in the code.                         *)
(***************************************************************************)
EXTENDS Integers, Sequences

CONSTANTS
    Chars,      \* the characters of paths
    Paths,      \* the paths that are requested
    NPos        \* std::string::npos

VARIABLES
    stage,          \* "loop", "name", "open" or "done"
    requested,   \* history: request.path_match[1]
    path,
    last_pos,
    current_pos,
    filename,
    answer       \* the status line of the response, or "none"

vars == <<stage, requested, path, last_pos, current_pos, filename, answer>>

\* The positions of dots in s.
Dots(s) == {k \in 0..Len(s) - 1 : s[k + 1] = "."}

\* Fault: s.find(".")
RFind_First(s) ==
    IF Dots(s) = {} THEN NPos ELSE CHOOSE k \in Dots(s) : \A j \in Dots(s) : k <= j

\* s.rfind(".")
RFind(s) ==
    IF Dots(s) = {} THEN NPos ELSE CHOOSE k \in Dots(s) : \A j \in Dots(s) : j <= k

\* s.find('.', from)
Find(s, from) ==
    LET hits == {k \in Dots(s) : from <= k}
    IN  IF hits = {} THEN NPos ELSE CHOOSE k \in hits : \A j \in hits : k <= j

\* s.erase(pos, 1)
Erase(s, pos) == [k \in 1..Len(s) - 1 |-> IF k <= pos THEN s[k] ELSE s[k + 1]]

Init ==
    /\ stage = "loop"
    /\ requested \in Paths
    /\ path = requested
    /\ last_pos = RFind(path)
    /\ current_pos = 0
    /\ filename = <<>>
    /\ answer = "none"

EraseAt(pos, last) ==
    /\ stage = "loop"
    /\ pos \notin {NPos, last_pos}
    /\ current_pos' = pos
    /\ path' = Erase(path, pos)
    /\ last_pos' = last
    /\ UNCHANGED <<stage, requested, filename, answer>>

\* Fault: last_pos stays where the last dot was.
EraseDot_Stale == EraseAt(Find(path, current_pos), last_pos)

\* The body of the loop.
EraseDot == EraseAt(Find(path, current_pos), last_pos - 1)

EndLoopAt(pos) ==
    /\ stage = "loop"
    /\ pos \in {NPos, last_pos}
    /\ stage' = "name"
    /\ UNCHANGED <<requested, path, last_pos, current_pos, filename, answer>>

\* The condition of the loop fails.
EndLoop == EndLoopAt(Find(path, current_pos))

WWW == <<"www", "/">>

\* "index.html" is one character here: of its parts only the dot matters.
Index == <<"index.html">>

\* A name without a dot is the name of a folder.
NameFile ==
    /\ stage = "name"
    /\ LET name == WWW \o path
           slash == IF name[Len(name)] # "/" THEN <<"/">> ELSE <<>>
       IN  filename' = IF Dots(name) = {} THEN name \o slash \o Index ELSE name
    /\ stage' = "open"
    /\ UNCHANGED <<requested, path, last_pos, current_pos, answer>>

\* The file can be opened, or it cannot.
Open ==
    /\ stage = "open"
    /\ answer' \in {"200", "400"}
    /\ stage' = "done"
    /\ UNCHANGED <<requested, path, last_pos, current_pos, filename>>

Step == EraseDot \/ EndLoop \/ NameFile \/ Open

Returned == stage = "done" /\ UNCHANGED vars

Next == Step \/ Returned

Spec == Init /\ [][Next]_vars

FairSpec == Spec /\ WF_vars(Step)

------------------------------------------------------------------------------
TypeOK ==
    /\ stage \in {"loop", "name", "open", "done"}
    /\ requested \in Seq(Chars)
    /\ path \in Seq(Chars)
    /\ last_pos \in Int \cup {NPos}
    /\ current_pos \in Nat
    /\ answer \in {"none", "200", "400"}

\* Whatever the path was, the loop leaves one dot at most: no ".." is served.
OneDotLeft == stage # "loop" => \A i, j \in Dots(path) : i = j

\* s without its dots, but the last one.
Cleaned(s) ==
    LET last == RFind(s)
        plain(c) == c # "."
    IN  IF last = NPos THEN s
        ELSE SelectSeq(SubSeq(s, 1, last), plain) \o SubSeq(s, last + 1, Len(s))

AnsweredRight ==
    /\ stage = "done"
    /\ path = Cleaned(requested)
    /\ \/ Dots(path) # {} /\ filename = WWW \o path
       \/ Dots(path) = {} /\ \E base \in {path, path \o <<"/">>} :
              filename = WWW \o base \o Index

\* The loop ends, and the request is answered for a file whose name has nothing
\* of the path but the dots before the last one taken away: of a path without
\* any dot it is the index of the folder.
Answered == <>AnsweredRight

==============================================================================

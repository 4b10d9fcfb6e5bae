------------------------------- MODULE Lifetimes -------------------------------
(***************************************************************************)
(* Objects on the heap and who owns them: the listings of chapters 3, 4,   *)
(* 5 and 7 about captures, moves, containers, smart pointers, threads and  *)
(* futures, as short programs over one heap.                               *)
(*                                                                         *)
(* A name stands for a variable, a parameter, a capture or a member.  It   *)
(* holds an object or nothing: a null pointer, what std::move() left, or a *)
(* variable out of its scope.  Names in References do not own what they    *)
(* hold.  A statement takes a name x, and maybe a name y and a number n.   *)
(*                                                                         *)
(* Program "3.5 any" is any code that uses class A of 3.5 as its members   *)
(* allow.                                                                  *)
(***************************************************************************)
EXTENDS Integers, Sequences, FiniteSets

CONSTANT MaxObjects   \* the objects that program "3.5 any" may make

ThreadNames == {"main", "t"}

Owners == {
    "value", "copy_value", "stored_value", "important", "v1", "v2", "result", \* 3.1
    "lv1", "lv2", "rv2", "a", "b", "obj", "str", "v[0]", "v[1]",              \* 3.3 - 3.6
    "v", "storage",                                                           \* 4.1
    "pointer", "pointer2", "pointer3", "i", "p1", "p2",                       \* 5.1, 5.2
    "a->pointer", "b->pointer", "task", "task of t"}                          \* 5.3, 7.4

References == {"&value", "rv1", "p"}

Names == Owners \cup References

Nil == 0

VARIABLES
    program,  \* the listing
    rest,     \* rest[t]: the statements that thread t has still to execute
    started,  \* the threads that run
    at,       \* at[x]: the object that x holds, or Nil
    refs,     \* refs[o]: its reference count; an object is destroyed at 0
    val,      \* val[o]: what is stored in it
    printed   \* what the program has printed: names and values

vars == <<program, rest, started, at, refs, val, printed>>

------------------------------------------------------------------------------
(* The statements.                                                         *)

Statement(what, x, y, n) == [do |-> what, x |-> x, y |-> y, n |-> n]

New(x, n) == Statement("new", x, x, n)         \* x owns a new object, n
Copy(x, y) == Statement("copy", x, y, 0)       \* x owns a copy of y's object
Share(x, y) == Statement("share", x, y, 0)     \* x owns y's object too
Refer(x, y) == Statement("refer", x, y, 0)     \* x refers to y's object
Move(x, y) == Statement("move", x, y, 0)       \* x owns y's object, y nothing
Drop(x) == Statement("drop", x, x, 0)          \* x is reset or leaves its scope
Add(x, n) == Statement("add", x, x, n)         \* += n
AddOf(x, y) == Statement("add of", x, y, 0)    \* += y
Set(x, n) == Statement("set", x, x, n)         \* = n
Show(x) == Statement("show", x, x, 0)          \* std::cout << x
Count(x) == Statement("count", x, x, 0)        \* std::cout << x.use_count()
Call(x) == Statement("call", x, x, 0)          \* if (x) x->foo();
Say(x) == Statement("say", x, x, 0)            \* std::cout << a text
Push(x, y) == Statement("push", x, y, 0)       \* x.push_back(), y its storage
Start(t) == Statement("start", t, t, 0)        \* std::thread
Join(t) == Statement("join", t, t, 0)          \* t.join()
Wait(x) == Statement("wait", x, x, 0)          \* x.wait()
Use == Statement("use", "a", "a", 0)           \* any use of class A

------------------------------------------------------------------------------
(* The listings.                                                           *)

lambda_value_capture ==
    <<New("value", 1), Copy("copy_value", "value"), Set("value", 100),
      Copy("stored_value", "copy_value"), Show("stored_value"),
      Drop("stored_value"), Drop("copy_value"), Drop("value")>>

lambda_reference_capture ==
    <<New("value", 1), Refer("&value", "value"), Set("value", 100),
      Copy("stored_value", "&value"), Show("stored_value"),
      Drop("stored_value"), Drop("value")>>

\* add(3, 4)
lambda_expression_capture ==
    <<New("important", 1), New("v1", 1), Move("v2", "important"),
      New("result", 3), Add("result", 4), AddOf("result", "v1"), AddOf("result", "v2"),
      Show("result"), Drop("result"), Drop("v2"), Drop("v1"), Drop("important")>>

\* A string is the number of its words.
rvalue ==
    <<New("lv1", 1), Refer("rv1", "lv1"), Show("rv1"),
      Copy("lv2", "lv1"), AddOf("lv2", "lv1"), Show("lv2"),
      Copy("rv2", "lv1"), AddOf("rv2", "lv2"), Add("rv2", 1), Show("rv2"),
      Drop("rv2"), Drop("lv2"), Drop("lv1")>>

return_rvalue(test) ==
    <<New("a", 1), New("b", 1), Move("obj", IF test THEN "a" ELSE "b"),
      Drop("b"), Drop("a")>>

\* main() of 3.5, and what it would be with the other argument.
ReturnsRvalue(test) == return_rvalue(test) \o <<Show("obj"), Drop("obj")>>

\* A string that was moved from is empty.
string_moves ==
    <<New("str", 1), Copy("v[0]", "str"), Show("str"),
      Move("v[1]", "str"), New("str", 0), Show("str"),
      Drop("v[0]"), Drop("v[1]"), Drop("str")>>

SizeAndCapacity == <<Show("v"), Show("storage")>>

\* Of a vector: v is its size, storage the array of its capacity.
linear_container ==
    LET push == Push("v", "storage")
    IN  <<New("v", 0), New("storage", 0)>> \o SizeAndCapacity
        \o <<push, push, push>> \o SizeAndCapacity
        \o <<push, push>> \o SizeAndCapacity
        \o <<Set("v", 0)>> \o SizeAndCapacity
        \o <<Drop("storage"), Copy("storage", "v")>> \o SizeAndCapacity
        \o <<Drop("storage"), Drop("v")>>

Counts == <<Count("pointer"), Count("pointer2"), Count("pointer3")>>

foo(x) == <<Share("i", x), Add("i", 1), Drop("i")>>

shared_ptr ==
    <<New("pointer", 10), Share("pointer2", "pointer"), Share("pointer3", "pointer")>>
    \o foo("pointer") \o <<Show("pointer"), Refer("p", "pointer")>> \o Counts
    \o <<Drop("pointer2")>> \o Counts
    \o <<Drop("pointer3")>> \o Counts
    \o <<Drop("pointer3"), Drop("pointer2"), Drop("pointer")>>

unique_ptr ==
    <<New("p1", 0), Call("p1"),
      Move("p2", "p1"), Show("p2"), Call("p2"), Call("p1"),
      Move("p1", "p2"), Call("p2"), Drop("p2"),
      Call("p1"), Drop("p1")>>

weak_ptr ==
    <<New("a", 0), New("b", 0), Share("a->pointer", "b"), Share("b->pointer", "a"),
      Drop("b"), Drop("a")>>

\* The names that are members of object o.
Parts(o) ==
    IF program # "5.3" THEN <<>>
    ELSE IF o = 1 THEN <<"a->pointer">> ELSE <<"b->pointer">>


thread_basic == [main |-> <<Start("t"), Join("t")>>, t |-> <<Say("hello world.")>>]

\* The object is the state that task and future share; 0 is: not ready.
futures ==
    [main |-> <<New("task", 0), Share("result", "task"),
                Move("task of t", "task"), Start("t"), Say("waiting..."),
                Wait("result"), Say("done!"), Show("result"),
                Drop("result"), Drop("task")>>,
     t    |-> <<Set("task of t", 7), Drop("task of t")>>]

any_use == <<Use, Drop("obj"), Drop("b"), Drop("a")>>

Alone(script) == [main |-> script, t |-> <<>>]

Programs ==
    {"3.1 value", "3.1 reference", "3.1 expression", "3.3", "3.5", "3.5 true", "3.5 any",
     "3.6", "4.1", "5.1", "5.2", "5.3", "7.1", "7.4"}

Script(p) ==
    CASE p = "3.1 value"      -> Alone(lambda_value_capture)
      [] p = "3.1 reference"  -> Alone(lambda_reference_capture)
      [] p = "3.1 expression" -> Alone(lambda_expression_capture)
      [] p = "3.3"            -> Alone(rvalue)
      [] p = "3.5"            -> Alone(ReturnsRvalue(FALSE))
      [] p = "3.5 true"       -> Alone(ReturnsRvalue(TRUE))
      [] p = "3.5 any"        -> Alone(any_use)
      [] p = "3.6"            -> Alone(string_moves)
      [] p = "4.1"            -> Alone(linear_container)
      [] p = "5.1"            -> Alone(shared_ptr)
      [] p = "5.2"            -> Alone(unique_ptr)
      [] p = "5.3"            -> Alone(weak_ptr)
      [] p = "7.1"            -> thread_basic
      [] p = "7.4"            -> futures

Init ==
    /\ program \in Programs
    /\ rest = Script(program)
    /\ started = {"main"}
    /\ at = [x \in Names |-> Nil]
    /\ refs = <<>>
    /\ val = <<>>
    /\ printed = <<>>

------------------------------------------------------------------------------
(* What a statement does.                                                  *)

\* main() returned: the process ends, whatever a detached thread is doing.
Exited == rest["main"] = <<>>

\* Thread t executes s, a statement of this kind.
Executes(t, s, what) ==
    /\ ~Exited
    /\ t \in started
    /\ rest[t] # <<>>
    /\ s = Head(rest[t])
    /\ s.do = what

\* more comes before what follows s.
Continue(t, more) == rest' = [rest EXCEPT ![t] = more \o Tail(@)]

Hold(x, o) == at' = [at EXCEPT ![x] = o]

Prints(x, n) == printed' = Append(printed, <<x, n>>)

\* x becomes the only owner of a new object.
Allocate(x, n) ==
    /\ x \in Owners
    /\ at[x] = Nil
    /\ Hold(x, Len(refs) + 1)
    /\ refs' = Append(refs, 1)
    /\ val' = Append(val, n)

DoNew(t, s) ==
    /\ Executes(t, s, "new")
    /\ Allocate(s.x, s.n)
    /\ Continue(t, <<>>)
    /\ UNCHANGED <<program, started, printed>>

DoCopy(t, s) ==
    /\ Executes(t, s, "copy")
    /\ at[s.y] # Nil
    /\ Allocate(s.x, val[at[s.y]])
    /\ Continue(t, <<>>)
    /\ UNCHANGED <<program, started, printed>>

DoShare(t, s) ==
    /\ Executes(t, s, "share")
    /\ s.x \in Owners /\ s.y \in Owners
    /\ at[s.x] = Nil /\ at[s.y] # Nil
    /\ Hold(s.x, at[s.y])
    /\ refs' = [refs EXCEPT ![at[s.y]] = @ + 1]
    /\ Continue(t, <<>>)
    /\ UNCHANGED <<program, started, val, printed>>

DoRefer(t, s) ==
    /\ Executes(t, s, "refer")
    /\ s.x \in References /\ s.y \in Owners
    /\ Hold(s.x, at[s.y])
    /\ Continue(t, <<>>)
    /\ UNCHANGED <<program, started, refs, val, printed>>

MoveTo(t, s, left) ==
    /\ Executes(t, s, "move")
    /\ s.x \in Owners /\ s.y \in Owners
    /\ s.x # s.y /\ at[s.x] = Nil
    /\ at' = [at EXCEPT ![s.x] = at[s.y], ![s.y] = left]
    /\ Continue(t, <<>>)
    /\ UNCHANGED <<program, started, refs, val, printed>>

\* Fault: the move constructor leaves the pointer where it was.
DoMove_Keeps(t, s) == MoveTo(t, s, at[s.y])

DoMove(t, s) == MoveTo(t, s, Nil)

\* The destructors of its members are part of an object's.
Destructors(o) == [k \in DOMAIN Parts(o) |-> Drop(Parts(o)[k])]

Release(t, s, o) ==
    /\ Executes(t, s, "drop")
    /\ s.x \in Owners
    /\ Hold(s.x, Nil)
    /\ refs' = IF o = Nil THEN refs ELSE [refs EXCEPT ![o] = @ - 1]
    /\ Continue(t, IF o # Nil /\ refs[o] = 1 THEN Destructors(o) ELSE <<>>)
    /\ UNCHANGED <<program, started, val, printed>>

\* Fault: the destructor does not delete.
DoDrop_Nothing(t, s) == Release(t, s, Nil)

DoDrop(t, s) == Release(t, s, at[s.x])

Alive(o) == o # Nil /\ refs[o] > 0

\* What the statement stores in the object of x.
Stored(s) ==
    CASE s.do = "set"    -> s.n
      [] s.do = "add"    -> val[at[s.x]] + s.n
      [] s.do = "add of" -> val[at[s.x]] + val[at[s.y]]

DoStore(t, s) ==
    /\ \E what \in {"set", "add", "add of"} : Executes(t, s, what)
    /\ Alive(at[s.x]) /\ Alive(at[s.y])
    /\ val' = [val EXCEPT ![at[s.x]] = Stored(s)]
    /\ Continue(t, <<>>)
    /\ UNCHANGED <<program, started, at, refs, printed>>

DoPrint(t, s) ==
    /\ \/ Executes(t, s, "show") /\ Alive(at[s.x]) /\ Prints(s.x, val[at[s.x]])
       \/ Executes(t, s, "count")
          /\ Prints(s.x, IF at[s.x] = Nil THEN 0 ELSE refs[at[s.x]])
       \/ Executes(t, s, "say") /\ Prints(s.x, 0)
    /\ Continue(t, <<>>)
    /\ UNCHANGED <<program, started, at, refs, val>>

DoCall(t, s) ==
    /\ Executes(t, s, "call")
    /\ IF at[s.x] = Nil THEN UNCHANGED printed
       ELSE Alive(at[s.x]) /\ Prints(s.x, val[at[s.x]])
    /\ Continue(t, <<>>)
    /\ UNCHANGED <<program, started, at, refs, val>>

\* A vector that is full moves to an array of twice the size.
DoPush(t, s) ==
    /\ Executes(t, s, "push")
    /\ LET size == val[at[s.x]]
           capacity == val[at[s.y]]
           larger == IF capacity = 0 THEN 1 ELSE 2 * capacity
       IN  Continue(t, (IF size = capacity THEN <<Drop(s.y), New(s.y, larger)>> ELSE <<>>)
                       \o <<Add(s.x, 1)>>)
    /\ UNCHANGED <<program, started, at, refs, val, printed>>

DoStart(t, s) ==
    /\ Executes(t, s, "start")
    /\ started' = started \cup {s.x}
    /\ Continue(t, <<>>)
    /\ UNCHANGED <<program, at, refs, val, printed>>

\* Until the thread has returned, or the future is ready.
DoWait(t, s) ==
    /\ \/ Executes(t, s, "join") /\ rest[s.x] = <<>>
       \/ Executes(t, s, "wait") /\ val[at[s.x]] # 0
    /\ Continue(t, <<>>)
    /\ UNCHANGED <<program, started, at, refs, val, printed>>

ObjectsOfA == {"a", "b", "obj"}

\* A legal use of class A: no copy of what was moved from; no assignment, the
\* move constructor makes it deleted.
Uses ==
    {New(x, 1) : x \in {x \in ObjectsOfA : at[x] = Nil /\ Len(refs) < MaxObjects}}
    \cup {Copy(x, y) : x \in {x \in ObjectsOfA : at[x] = Nil /\ Len(refs) < MaxObjects},
                       y \in {y \in ObjectsOfA : at[y] # Nil}}
    \cup {Move(x, y) : x \in {x \in ObjectsOfA : at[x] = Nil},
                       y \in {y \in ObjectsOfA : at[y] # Nil}}
    \cup {Drop(x) : x \in ObjectsOfA}

\* The code uses A once more, or it is done.
DoUse(t, s) ==
    /\ Executes(t, s, "use")
    /\ \/ \E use \in Uses : Continue(t, <<use, Use>>)
       \/ Continue(t, <<>>)
    /\ UNCHANGED <<program, started, at, refs, val, printed>>

Do(t, s) ==
    \/ DoNew(t, s) \/ DoCopy(t, s) \/ DoShare(t, s) \/ DoRefer(t, s) \/ DoMove(t, s)
    \/ DoDrop(t, s) \/ DoStore(t, s) \/ DoPrint(t, s) \/ DoCall(t, s) \/ DoPush(t, s)
    \/ DoStart(t, s) \/ DoWait(t, s) \/ DoUse(t, s)

Step(t) == rest[t] # <<>> /\ Do(t, Head(rest[t]))

Terminated == Exited /\ UNCHANGED vars

Next == (\E t \in ThreadNames : Step(t)) \/ Terminated

Spec == Init /\ [][Next]_vars

\* The threads keep running.
FairSpec == Spec /\ \A t \in ThreadNames : WF_vars(Step(t))

------------------------------------------------------------------------------
Objects == DOMAIN refs

TypeOK ==
    /\ program \in Programs
    /\ started \subseteq ThreadNames
    /\ at \in [Names -> Objects \cup {Nil}]
    /\ refs \in Seq(Nat)
    /\ val \in Seq(Int) /\ Len(val) = Len(refs)

OwnersOf(o) == {x \in Owners : at[x] = o}

\* Through all moves, copies, resets and ends of scope, the count of an object is
\* the number of its owners: nothing is destroyed twice, or while it is owned.
OwnersCounted == \A o \in Objects : refs[o] = Cardinality(OwnersOf(o))

\* When main() has returned, what is left on the heap is owned by a thread that
\* still runs, or by another object that is left, as in the cycle of 5.3: no name
\* of main() does, and nothing is left without an owner.
NothingLeaks ==
    Exited => \A o \in Objects : Alive(o) =>
                  /\ program \in {"5.3", "7.4"}
                  /\ OwnersOf(o) \subseteq {"a->pointer", "b->pointer", "task of t"}
                  /\ program = "7.4" => rest["t"] # <<>>

\* What a listing is expected to print: what the text of the book gives, where it
\* gives the output, then what the comments of the listing give, then the order of
\* the statements that print.  Two comments say something else, and are not meant
\* here: after 3.3 line 33 rv2 would be three words (03-runtime.md line 361 has the
\* four), and at 5.1 line 46 the count would be 0 (05-pointers.md line 77 has 1).
Expected(p) ==
    CASE p = "3.1 value"      -> <<<<"stored_value", 1>>>>
      [] p = "3.1 reference"  -> <<<<"stored_value", 100>>>>
      [] p = "3.1 expression" -> <<<<"result", 3 + 4 + 1 + 1>>>>
      [] p = "3.3"            -> <<<<"rv1", 1>>, <<"lv2", 2>>, <<"rv2", 4>>>>
      [] p \in {"3.5", "3.5 true"} -> <<<<"obj", 1>>>>
      [] p \in {"3.5 any", "5.3"}  -> <<>>
      [] p = "3.6"            -> <<<<"str", 1>>, <<"str", 0>>>>
      [] p = "4.1"            -> <<<<"v", 0>>, <<"storage", 0>>, <<"v", 3>>, <<"storage", 4>>,
                                   <<"v", 5>>, <<"storage", 8>>, <<"v", 0>>, <<"storage", 8>>,
                                   <<"v", 0>>, <<"storage", 0>>>>
      [] p = "5.1"            -> <<<<"pointer", 11>>,
                                   <<"pointer", 3>>, <<"pointer2", 3>>, <<"pointer3", 3>>,
                                   <<"pointer", 2>>, <<"pointer2", 0>>, <<"pointer3", 2>>,
                                   <<"pointer", 1>>, <<"pointer2", 0>>, <<"pointer3", 0>>>>
      [] p = "5.2"            -> <<<<"p1", 0>>, <<"p2", 0>>, <<"p2", 0>>, <<"p1", 0>>>>
      [] p = "7.1"            -> <<<<"hello world.", 0>>>>
      [] p = "7.4"            -> <<<<"waiting...", 0>>, <<"done!", 0>>, <<"result", 7>>>>


\* Every listing returns, and never needs an object that is not there.
Returns == <>(program # "3.5 any" => Exited)

==============================================================================

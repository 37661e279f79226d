------------------------------ MODULE Delegate ------------------------------
(***************************************************************************)
(* Delegate.h of EspSoftwareSerial: a function, a function with an object, *)
(* or a std::function, in a union.  The union's members are constructed    *)
(* and destroyed by hand, and a delegate converts to a function with a     *)
(* void* argument.  One model stands for the four implementations (with    *)
(* and without parameters, with and without an object) and their wrappers. *)
(***************************************************************************)
EXTENDS Integers

CONSTANTS Delegates,   \* storage for objects of the class
          Pointers     \* those whose object is a pointer: Delegate<A*>

VARIABLES union,       \* kind, what is constructed in the union, what it calls
          meant        \* history: what the program wants each delegate to call

delegateVars == <<union, meant>>

Null == 0
Moved == -1            \* an object that was moved from
Callables == [kind : {"FUNC", "FP", "FPA"}, id : {1, 2}]
NoDelegate == [kind |-> "none", functional |-> 0, obj |-> 0, id |-> Null]

-----------------------------------------------------------------------------
(* Lifetimes of the members.                                               *)

Members(u, kind, n) ==
    CASE kind = "FUNC" -> [u EXCEPT !.functional = @ + n]
      [] kind = "FPA"  -> [u EXCEPT !.obj = @ + n]
      [] OTHER         -> u
\* functional.~FunctionType() or obj.~A(); obj = {} where obj is outside the union
Destroyed(u) == [Members(u, u.kind, -1) EXCEPT !.kind = "none"]
\* new (&functional) FunctionType, or new (&obj) A
Constructed(u, kind) == [Members(u, kind, 1) EXCEPT !.kind = kind]

\* Mutant: a function is written over what the union held.
OverwrittenByFunction(u, id) == [u EXCEPT !.kind = "FP", !.id = id]

\* operator=(FunPtr) and operator=(nullptr_t)
AssignedFunction(u, id) == [Constructed(Destroyed(u), "FP") EXCEPT !.id = id]

\* operator= of another delegate
AssignedDelegate(u, kind, id) ==
    LET v == IF u.kind = kind THEN u ELSE Constructed(Destroyed(u), kind)
    IN  [v EXCEPT !.id = id]

\* What a move leaves of its source.
LeftBy(u) == [u EXCEPT !.id = CASE u.kind = "FUNC" -> Null [] u.kind = "FPA" -> Moved [] OTHER -> @]

-----------------------------------------------------------------------------
(* Calls and conversions.                                                  *)

Target(u) == [kind |-> u.kind, id |-> u.id]
IsSet(u) == u.id # Null

\* operator FunVPPtr
FunVPPtr(d) ==
    CASE union[d].kind = "FP"                     -> "vPtrToFunPtrExec"
      [] union[d].kind = "FPA" /\ d \in Pointers  -> "fnA"
      [] union[d].kind = "FPA" /\ d \notin Pointers -> "vPtrToFunAPtrExec"
      [] OTHER                                    -> "functional"
\* arg(): the function, the object, or the delegate itself
Arg(d) ==
    IF union[d].kind = "FP" \/ FunVPPtr(d) = "fnA" THEN <<"value", union[d].id>> ELSE <<"self", d>>
\* What the pair calls.
Through(fn, arg) ==
    CASE fn = "vPtrToFunPtrExec"  -> [kind |-> "FP", id |-> arg[2]]
      [] fn = "fnA"               -> [kind |-> "FPA", id |-> arg[2]]
      [] fn = "vPtrToFunAPtrExec" -> [kind |-> "FPA", id |-> union[arg[2]].id]
      [] OTHER                    -> [kind |-> "FUNC", id |-> union[arg[2]].id]

-----------------------------------------------------------------------------

DelegateInit ==
    /\ union = [d \in Delegates |-> NoDelegate]
    /\ meant = [d \in Delegates |-> Target(NoDelegate)]

Exists(d) == union[d].kind # "none"
Becomes(d, u, t) ==
    /\ union' = [union EXCEPT ![d] = u]
    /\ meant' = [meant EXCEPT ![d] = t]

\* The constructors: nothing, a function, a function with an object, a functor.
ConstructDelegate(d) ==
    /\ ~Exists(d)
    /\ \E t \in Callables \cup {[kind |-> "FP", id |-> Null]} :
          Becomes(d, [Constructed(union[d], t.kind) EXCEPT !.id = t.id], t)

CopyDelegate(d, s) ==
    /\ Exists(s) /\ ~Exists(d)
    /\ Becomes(d, [Constructed(union[d], union[s].kind) EXCEPT !.id = union[s].id], meant[s])

AssignDelegate(d, s) ==
    /\ Exists(s) /\ Exists(d)
    /\ Becomes(d, IF d = s THEN union[d] ELSE AssignedDelegate(union[d], union[s].kind, union[s].id), meant[s])

\* A move construction or assignment: the source keeps its kind.
MoveDelegate(d, s) ==
    LET u == union[d]  v == union[s] IN
    /\ Exists(s) /\ d # s
    /\ union' = [union EXCEPT
          ![d] = IF Exists(d) THEN AssignedDelegate(u, v.kind, v.id)
                              ELSE [Constructed(u, v.kind) EXCEPT !.id = v.id],
          ![s] = LeftBy(v)]
    /\ meant' = [meant EXCEPT ![d] = meant[s], ![s] = Target(LeftBy(v))]

AssignFunction(d) ==
    /\ Exists(d)
    /\ \E id \in {Null, 1, 2} : Becomes(d, AssignedFunction(union[d], id), [kind |-> "FP", id |-> id])

DestroyDelegate(d) ==
    /\ Exists(d)
    /\ Becomes(d, [Destroyed(union[d]) EXCEPT !.id = Null], Target(NoDelegate))

DelegateNext ==
    \E d \in Delegates :
        \/ ConstructDelegate(d) \/ AssignFunction(d) \/ DestroyDelegate(d)
        \/ \E s \in Delegates : CopyDelegate(d, s) \/ AssignDelegate(d, s) \/ MoveDelegate(d, s)

DelegateSpec == DelegateInit /\ [][DelegateNext]_delegateVars

-----------------------------------------------------------------------------

\* Through any sequence of constructions, copies, moves and assignments a
\* delegate holds exactly the member of its kind, constructed once, and calls
\* what the program gave it, directly and through its function and argument.
DelegateKeepsWord ==
    \A d \in Delegates :
        LET u == union[d] IN
        /\ u.functional = (IF u.kind = "FUNC" THEN 1 ELSE 0)
        /\ u.obj = (IF u.kind = "FPA" THEN 1 ELSE 0)
        /\ Target(u) = meant[d]
        /\ Exists(d) => Through(FunVPPtr(d), Arg(d)) = meant[d]
=============================================================================

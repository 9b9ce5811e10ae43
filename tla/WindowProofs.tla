---------------------------- MODULE WindowProofs ----------------------------
(***************************************************************************)
(* The focus of a window, call by call and event by event, for any widgets *)
(* and any depth of calls.  FocusSettles of FocusCalls is not inductive: a *)
(* return uncovers the call below, so one must know that no call below     *)
(* waits for a widget to let go.  FeltMatchesFocus of WindowEvents is, but *)
(* for the stages in which there is no window or nobody has a handle on    *)
(* it; its proof is that a subtree stays the same when the tree changes    *)
(* elsewhere.                                                              *)
(***************************************************************************)
EXTENDS WindowEvents, FocusCalls, FiniteSetTheorems, TLAPS

-----------------------------------------------------------------------------
(* Calls.                                                                  *)

Someone == Focusable \cup {Nobody}
Call == [to : Someone, notice : {"in", "out"}]

CallTypes ==
  /\ inside \subseteq Focusable
  /\ focused \in Someone
  /\ feeling \subseteq Someone
  /\ calls \in Seq(Call)
  /\ strained \in BOOLEAN

\* Only the last call may be in the handler of a widget that loses the focus.
NobodyWaitsBelow ==
  ~strained => \A i \in 1..(Len(calls) - 1) : calls[i].notice = "in"

FocusInv == CallTypes /\ NobodyWaitsBelow /\ FocusSettles

\* The two cases of FocusSettles.
LEMMA SettledCases ==
  FocusSettles <=>
    /\ {focused} \cup feeling \subseteq Someone
    /\ ~strained /\ InHandler("out") => feeling = {}
    /\ ~strained /\ ~InHandler("out") => feeling = {focused} \ {Nobody}
BY DEF FocusSettles, Someone

LEMMA FocusInitInv == CallInit => FocusInv
<1> SUFFICES ASSUME CallInit PROVE FocusInv
  OBVIOUS
<1>1. calls = <<>> /\ Len(calls) = 0 /\ calls \in Seq(Call)
  BY DEF CallInit
<1>2. CallTypes /\ NobodyWaitsBelow
  <2>1. 1..(Len(calls) - 1) = {}
    BY <1>1
  <2>2. CallTypes
    BY <1>1 DEF CallInit, CallTypes, Someone
  <2>3. QED
    BY <2>1, <2>2 DEF NobodyWaitsBelow
<1>3. {focused} \ {Nobody} = {} /\ feeling = {} /\ ~InHandler("out")
  BY <1>1 DEF CallInit, InHandler
<1>4. QED
  BY <1>2, <1>3, SettledCases DEF FocusInv, CallTypes

\* The calls below the last one, and what the last of them is doing.
LEMMA CallsBelow ==
  ASSUME CallTypes, NEW n \in Nat, n < Len(calls)
  PROVE  /\ SubSeq(calls, 1, n) \in Seq(Call)
         /\ Len(SubSeq(calls, 1, n)) = n
         /\ \A i \in 1..n : SubSeq(calls, 1, n)[i] = calls[i]
BY DEF CallTypes

LEMMA SetFocusInv ==
  ASSUME FocusInv, NEW w \in Someone, CallSetFocus(w)
  PROVE  FocusInv'
<1> USE DEF FocusInv
<1> DEFINE out == [to |-> w, notice |-> "out"]
           in  == [to |-> w, notice |-> "in"]
<1>1. in \in Call /\ out \in Call
  BY DEF Call
<1>2. strained' = (strained \/ InHandler("out")) /\ inside' = inside
  BY DEF CallSetFocus
<1>3. ASSUME ~strained'
      PROVE  /\ \A i \in 1..Len(calls) : calls[i].notice = "in"
             /\ feeling = {focused} \ {Nobody}
  <2>1. ~strained /\ ~InHandler("out")
    BY <1>2, <1>3
  <2>2. ASSUME NEW i \in 1..Len(calls)
        PROVE  calls[i].notice = "in"
    <3>1. CASE i = Len(calls)
      <4>1. calls # <<>> /\ calls[i] \in Call
        BY <3>1 DEF CallTypes
      <4>2. QED
        BY <2>1, <3>1, <4>1 DEF InHandler, Call
    <3>2. CASE i # Len(calls)
      BY <2>1, <3>2 DEF NobodyWaitsBelow, CallTypes
    <3>3. QED
      BY <3>1, <3>2
  <2>3. QED
    BY <2>1, <2>2, SettledCases
<1>4. CASE focused # Nobody
  <2>1. calls' = Append(calls, out) /\ feeling' = feeling \ {focused} /\ focused' = focused
    BY <1>4 DEF CallSetFocus
  <2>2. CallTypes'
    BY <1>1, <1>2, <2>1 DEF CallTypes
  <2>3. /\ Len(calls') = Len(calls) + 1 /\ calls'[Len(calls) + 1] = out
        /\ \A i \in 1..Len(calls) : calls'[i] = calls[i]
    BY <1>1, <2>1 DEF CallTypes
  <2>4. InHandler("out")'
    BY <2>1, <2>3 DEF InHandler, CallTypes
  <2>5. QED
    BY <1>3, <2>1, <2>2, <2>3, <2>4 DEF NobodyWaitsBelow, FocusSettles, CallTypes, Someone
<1>5. CASE focused = Nobody /\ w = Nobody
  <2>1. calls' = calls /\ feeling' = feeling /\ focused' = focused
    BY <1>5 DEF CallSetFocus, Focus
  <2>2. QED
    BY <1>2, <2>1 DEF CallTypes, NobodyWaitsBelow, FocusSettles, InHandler
<1>6. CASE focused = Nobody /\ w # Nobody
  <2>1. calls' = Append(calls, in) /\ feeling' = feeling \cup {w} /\ focused' = w
    BY <1>6 DEF CallSetFocus, Focus
  <2>2. CallTypes'
    BY <1>1, <1>2, <2>1 DEF CallTypes
  <2>3. /\ Len(calls') = Len(calls) + 1 /\ calls'[Len(calls) + 1] = in
        /\ \A i \in 1..Len(calls) : calls'[i] = calls[i]
    BY <1>1, <2>1 DEF CallTypes
  <2>4. ~InHandler("out")'
    BY <2>1, <2>3 DEF InHandler, CallTypes
  <2>5. QED
    BY <1>3, <1>6, <2>1, <2>2, <2>3, <2>4 DEF NobodyWaitsBelow, FocusSettles, CallTypes, Someone
<1>7. QED
  BY <1>4, <1>5, <1>6

LEMMA LetGoInv ==
  ASSUME FocusInv, LetGo
  PROVE  FocusInv'
<1> USE DEF FocusInv
<1> DEFINE w == calls[Len(calls)].to
           in == [to |-> w, notice |-> "in"]
           n == Len(calls) - 1
<1>1. n \in Nat /\ n < Len(calls) /\ w \in Someone /\ in \in Call
  <2>1. calls \in Seq(Call) /\ calls # <<>>
    BY DEF LetGo, InHandler, CallTypes
  <2>2. calls[Len(calls)] \in Call /\ n \in Nat
    BY <2>1
  <2>3. QED
    BY <2>1, <2>2 DEF Call
<1>2. /\ Below \in Seq(Call) /\ Len(Below) = n
      /\ \A i \in 1..n : Below[i] = calls[i]
  BY <1>1, CallsBelow DEF Below
<1>3. inside' = inside /\ strained' = strained /\ focused' = w
      /\ feeling' = feeling \cup ({w} \ {Nobody})
      /\ calls' = IF w = Nobody THEN Below ELSE Append(Below, in)
  BY DEF LetGo, Focus
<1> HIDE DEF w
<1>4. CallTypes'
  BY <1>1, <1>2, <1>3 DEF CallTypes
<1>5. ASSUME ~strained
      PROVE  feeling = {} /\ \A i \in 1..n : Below[i].notice = "in"
  BY <1>2, <1>5 DEF LetGo, NobodyWaitsBelow, FocusSettles
<1>6. CASE w = Nobody
  <2>1. calls' = Below
    BY <1>3, <1>6
  <2>2. ~strained => ~InHandler("out")'
    BY <1>1, <1>2, <1>5, <2>1 DEF InHandler
  <2>3. QED
    BY <1>1, <1>2, <1>3, <1>4, <1>5, <1>6, <2>1, <2>2
    DEF NobodyWaitsBelow, FocusSettles, CallTypes, Someone
<1>7. CASE w # Nobody
  <2>1. /\ Len(calls') = n + 1 /\ calls'[n + 1] = in
        /\ \A i \in 1..n : calls'[i] = Below[i]
    BY <1>1, <1>2, <1>3, <1>7
  <2>2. ~InHandler("out")'
    BY <1>1, <2>1 DEF InHandler
  <2>3. QED
    BY <1>1, <1>3, <1>4, <1>5, <1>7, <2>1, <2>2
    DEF NobodyWaitsBelow, FocusSettles, CallTypes, Someone
<1>8. QED
  BY <1>6, <1>7

\* Return and Throw go back to an earlier call and change nothing else.
LEMMA GoBackInv ==
  ASSUME FocusInv, NEW n \in Nat, n < Len(calls),
         calls' = SubSeq(calls, 1, n),
         UNCHANGED <<inside, focused, feeling>>,
         strained' \in BOOLEAN,
         ~strained' => ~strained /\ calls[Len(calls)].notice # "out"
  PROVE  FocusInv'
<1> USE DEF FocusInv
<1>1. calls' \in Seq(Call) /\ Len(calls') = n /\ \A i \in 1..n : calls'[i] = calls[i]
  BY CallsBelow
<1>2. CallTypes'
  BY <1>1 DEF CallTypes
<1>3. ASSUME ~strained'
      PROVE  /\ \A i \in 1..n : calls'[i].notice = "in"
             /\ feeling' = {focused'} \ {Nobody}
  BY <1>1, <1>3 DEF NobodyWaitsBelow, FocusSettles, InHandler, CallTypes
<1>4. ~strained' => ~InHandler("out")'
  BY <1>1, <1>3 DEF InHandler
<1>5. QED
  BY <1>1, <1>2, <1>3, <1>4 DEF NobodyWaitsBelow, FocusSettles, CallTypes, Someone

LEMMA ReturnInv ==
  ASSUME FocusInv, Return
  PROVE  FocusInv'
<1> DEFINE n == Len(calls) - 1
<1>1. n \in Nat /\ n < Len(calls) /\ calls[Len(calls)].notice # "out"
  BY DEF Return, InHandler, FocusInv, CallTypes
<1>2. calls' = SubSeq(calls, 1, n)
  BY DEF Return, Below
<1>3. strained' = strained /\ strained \in BOOLEAN /\ UNCHANGED <<inside, focused, feeling>>
  BY DEF Return, FocusInv, CallTypes
<1> HIDE DEF n
<1>4. QED
  BY <1>1, <1>2, <1>3, GoBackInv

LEMMA ThrowInv ==
  ASSUME FocusInv, NEW n \in Nat, Throw(n)
  PROVE  FocusInv'
<1>1. n < Len(calls) /\ calls' = SubSeq(calls, 1, n) /\ UNCHANGED <<inside, focused, feeling>>
  BY DEF Throw
<1>2. strained' = (strained \/ \E i \in (n + 1)..Len(calls) : calls[i].notice = "out")
  BY DEF Throw
<1>3. Len(calls) \in (n + 1)..Len(calls)
  BY <1>1 DEF FocusInv, CallTypes
<1>4. strained' \in BOOLEAN /\ (~strained' => ~strained /\ calls[Len(calls)].notice # "out")
  BY <1>2, <1>3 DEF FocusInv, CallTypes
<1>5. QED
  BY <1>1, <1>4, GoBackInv

LEMMA MoveInv ==
  ASSUME FocusInv, NEW w \in Focusable, Move(w)
  PROVE  FocusInv'
BY DEF FocusInv, CallTypes, NobodyWaitsBelow, FocusSettles, InHandler, Move

LEMMA FocusNextInv ==
  ASSUME FocusInv, [CallNext]_focusVars
  PROVE  FocusInv'
<1>1. CASE UNCHANGED focusVars
  BY <1>1 DEF FocusInv, CallTypes, NobodyWaitsBelow, FocusSettles, InHandler, focusVars
<1>2. ASSUME NEW w \in Focusable \cup {Nobody}, CallSetFocus(w)
      PROVE  FocusInv'
  BY <1>2, SetFocusInv DEF Someone
<1>3. CASE LetGo \/ Return
  BY <1>3, LetGoInv, ReturnInv
<1>4. ASSUME NEW n \in 0..(MaxDepth - 1), Throw(n)
      PROVE  FocusInv'
  BY <1>4, ThrowInv
<1>5. ASSUME NEW w \in Focusable, Move(w)
      PROVE  FocusInv'
  BY <1>5, MoveInv
<1>6. QED
  BY <1>1, <1>2, <1>3, <1>4, <1>5 DEF CallNext

\* After every call and in every handler but a loser's the focused widget is the
\* only one that feels focused, however deep handlers set the focus again, unless
\* one did so, or threw, instead of letting go (Window::setFocus).
THEOREM FocusAlwaysSettles == CallSpec => []FocusSettles
<1>1. CallInit => FocusInv
  BY FocusInitInv
<1>2. FocusInv /\ [CallNext]_focusVars => FocusInv'
  BY FocusNextInv
<1>3. FocusInv => FocusSettles
  BY DEF FocusInv
<1>4. QED
  BY <1>1, <1>2, <1>3, PTL DEF CallSpec

-----------------------------------------------------------------------------
(* The tree of widgets.                                                    *)

LEMMA SubtreeHolds ==
  ASSUME NEW n \in Node
  PROVE  /\ n \in Subtree(n) /\ Subtree(n) \subseteq {n} \cup Widget
         /\ \A x \in Subtree(n) : Children(x) \subseteq Subtree(n)
<1>1. n \in Subtree(n) /\ Subtree(n) \subseteq {n} \cup Widget
  BY DEF Subtree, Reached
<1>2. ASSUME NEW x \in Subtree(n), NEW c \in Children(x) PROVE c \in Subtree(n)
  <2>1. c \in Widget /\ x \in Node
    BY <1>1, <1>2 DEF Children, Node
  <2>2. ASSUME NEW S \in SUBSET Widget, \A y \in Node \cap ({n} \cup S) : Children(y) \subseteq S
        PROVE  c \in S
    <3>1. x = n \/ x \in S
      BY <2>2 DEF Subtree, Reached
    <3>2. QED
      BY <1>2, <2>1, <2>2, <3>1
  <2>3. QED
    BY <2>1, <2>2 DEF Subtree, Reached
<1>3. QED
  BY <1>1, <1>2

\* Nothing is in a subtree that need not be.
SubtreesAreLeast ==
  \A n \in Node : \A T :
    n \in T /\ (\A x \in T : Children(x) \subseteq T) => Subtree(n) \subseteq T

LEMMA SubtreeIsLeast == SubtreesAreLeast
<1> SUFFICES ASSUME NEW n \in Node, NEW T, n \in T, \A x \in T : Children(x) \subseteq T
             PROVE  Subtree(n) \subseteq T
  BY DEF SubtreesAreLeast
<1> DEFINE S == T \cap Widget
<1>1. \A y \in Node \cap ({n} \cup S) : Children(y) \subseteq S
  BY DEF Children
<1>2. S \in SUBSET Widget
  OBVIOUS
<1> HIDE DEF S
<1>3. Subtree(n) \subseteq {n} \cup S
  BY <1>1, <1>2 DEF Subtree, Reached
<1>4. QED
  BY <1>3 DEF S

\* A widget that comes to p and was not below n, other than as n itself, with p
\* not below n either, leaves the subtree of n as it was.
LEMMA SubtreeStays ==
  ASSUME NEW n \in Node, NEW w \in Widget, NEW p,
         parent \in [Widget -> Node \cup {None}], parent' = [parent EXCEPT ![w] = p],
         w \notin Subtree(n) \ {n}, p \notin Subtree(n)
  PROVE  Subtree(n)' = Subtree(n)
<1>1. /\ n \in Subtree(n)
      /\ \A x \in Subtree(n) : Children(x) \subseteq Subtree(n)
  BY SubtreeHolds
<1>2. /\ n \in Subtree(n)'
      /\ \A x \in Subtree(n)' : Children(x)' \subseteq Subtree(n)'
  <2>1. (/\ n \in Subtree(n)
         /\ \A x \in Subtree(n) : Children(x) \subseteq Subtree(n))'
    BY SubtreeHolds, PTL
  <2>2. QED
    BY <2>1
<1>3. \A x : Children(x)' \ {w} = Children(x) \ {w} /\ (x # p => w \notin Children(x)')
  BY DEF Children
<1>4. Subtree(n)' \subseteq Subtree(n)
  <2>1. \A x \in Subtree(n) : Children(x)' \subseteq Subtree(n)
    BY <1>1, <1>3
  <2>2. PICK T : T = Subtree(n)
    OBVIOUS
  <2>3. n \in T /\ \A x \in T : Children(x)' \subseteq T
    BY <1>1, <2>1, <2>2
  <2>4. SubtreesAreLeast'
    BY SubtreeIsLeast, PTL
  <2>5. QED
    BY <2>2, <2>3, <2>4 DEF SubtreesAreLeast
<1>5. Subtree(n) \subseteq Subtree(n)'
  <2>1. \A x \in Subtree(n)' : Children(x) \subseteq Subtree(n)'
    BY <1>1, <1>2, <1>3, <1>4
  <2>2. PICK T : T = Subtree(n)'
    OBVIOUS
  <2>3. QED
    BY <1>2, <2>1, <2>2, SubtreeIsLeast DEF SubtreesAreLeast
<1>6. QED
  BY <1>4, <1>5

\* Only what is below a node hears of an event that rises or sinks to it.
LEMMA RoutesStayBelow ==
  ASSUME NEW n \in Node, NEW ok
  PROVE  Rises(n, ok) \subseteq {n} \cup Widget /\ Asked(n, ok) \subseteq {n} \cup Widget
<1>1. Rises(n, ok) \subseteq Subtree(n)
  BY DEF Rises
<1>2. QED
  BY <1>1, SubtreeHolds DEF Asked, Reached

-----------------------------------------------------------------------------
(* Events.                                                                 *)

WindowInv ==
  /\ BackendsAreClosed
  /\ FeltMatchesFocus
  /\ stage = "absent" => focus = None /\ felt = {}
  /\ stage = "lost" => focus = Window /\ holder = "node" /\ (~upset => felt = {})

LEMMA ConcernedStays ==
  ASSUME UNCHANGED parent, NEW n
  PROVE  Concerned(n)' = Concerned(n)
BY DEF Concerned, Subtree, Reached, Children

LEMMA NobodyConcerned == Concerned(None) = {} /\ Concerned(Window) = {}
BY WindowIsNoWidget, NoneIsNoNode DEF Concerned

\* What happens to neither the tree nor the focus.
LEMMA RestInv ==
  ASSUME WindowInv, TypeOK', BackendsAreClosed', stage' \notin {"absent", "lost"},
         Usable' => stage \in {"absent", "idle", "showing", "lost"},
         UNCHANGED <<parent, felt, upset>>, Usable' => focus' = focus
  PROVE  WindowInv'
<1>1. FeltMatchesFocus'
  <2>1. SUFFICES ASSUME Usable', ~upset' PROVE felt' = Concerned(focus)'
    BY DEF FeltMatchesFocus
  <2>2. focus' = focus /\ felt' = felt /\ ~upset /\ stage \in {"absent", "idle", "showing", "lost"}
    BY <2>1
  <2>3. felt = Concerned(focus)
    BY <2>2, NobodyConcerned DEF WindowInv, FeltMatchesFocus, Usable
  <2>4. Concerned(focus)' = Concerned(focus)
    BY <2>2 DEF Concerned, Subtree, Reached, Children
  <2>5. QED
    BY <2>2, <2>3, <2>4
<1>2. QED
  BY <1>1 DEF WindowInv

LEMMA WindowInitInv == Init => WindowInv
<1> SUFFICES ASSUME Init PROVE WindowInv
  OBVIOUS
<1>1. last \in [event : Event \cup {"none"}, ran : SUBSET Node, refused : SUBSET Node]
  BY DEF Init, NoEvent
<1>2. TypeOK
  BY <1>1 DEF Init, TypeOK, Stage
<1>3. QED
  BY <1>2 DEF Init, WindowInv, BackendsAreClosed, FeltMatchesFocus, Usable

\* The tree changes elsewhere, or the focus is upset.
LEMMA LinkInv ==
  ASSUME WindowInv, NEW w \in Widget, NEW p \in Node \cup {None}, Link(w, p)
  PROVE  WindowInv'
<1>1. /\ Usable /\ Usable' /\ stage' = stage /\ holder' = holder /\ open' = open
      /\ focus' = focus /\ felt' = felt /\ last' = NoEvent /\ stuck' = FALSE
      /\ parent' = [parent EXCEPT ![w] = p]
      /\ upset' = (upset \/ /\ focus \in Widget
                            /\ w \in Subtree(focus) \ {focus} \/ p \in Subtree(focus))
  BY DEF Link, Usable, Quiet
<1>2. TypeOK /\ TypeOK'
  BY <1>1 DEF WindowInv, BackendsAreClosed, TypeOK, NoEvent
<1>3. BackendsAreClosed'
  BY <1>1, <1>2 DEF WindowInv, BackendsAreClosed
<1>4. ASSUME ~upset' PROVE felt' = Concerned(focus)'
  <2>1. felt = Concerned(focus)
    BY <1>1, <1>4 DEF WindowInv, FeltMatchesFocus
  <2>2. CASE focus \notin Widget
    BY <1>1, <2>1, <2>2 DEF Concerned
  <2>3. CASE focus \in Widget
    <3>1. focus \in Node /\ w \notin Subtree(focus) \ {focus} /\ p \notin Subtree(focus)
      BY <1>1, <1>4, <2>3 DEF Node
    <3>2. PICK f : f = focus
      OBVIOUS
    <3>3. Subtree(f)' = Subtree(f)
      BY <1>1, <1>2, <3>1, <3>2, SubtreeStays DEF TypeOK
    <3>4. felt' = Subtree(f)'
      BY <1>1, <2>1, <2>3, <3>2, <3>3 DEF Concerned
    <3>5. focus' = f /\ f \in Widget
      BY <1>1, <2>3, <3>2
    <3>6. QED
      BY <3>4, <3>5 DEF Concerned
  <2>4. QED
    BY <2>2, <2>3
<1>5. FeltMatchesFocus'
  BY <1>4 DEF FeltMatchesFocus
<1>6. QED
  BY <1>1, <1>3, <1>5 DEF WindowInv, Usable

\* Everyone below the loser is told, and everyone below the winner, or a
\* handler refused.
LEMMA SetFocusFelt ==
  ASSUME WindowInv, NEW w \in Node \cup {None}, SetFocus(w)
  PROVE  WindowInv'
<1>1. /\ Usable /\ Usable' /\ stage' = stage /\ holder' = holder /\ open' = open
      /\ focus' = w /\ parent' = parent /\ last' = NoEvent /\ stuck' = FALSE
      /\ w # None => holder = "node"
  BY DEF SetFocus, Usable, Quiet
<1>2. TypeOK
  BY DEF WindowInv, BackendsAreClosed
<1>3. PICK lost \in Told(focus), won \in Told(w) :
        /\ felt' = (felt \ lost) \cup won
        /\ upset' = (upset \/ lost # Concerned(focus) \/ won # Concerned(w))
  BY DEF SetFocus, Notify
<1>4. won \subseteq Widget
  <2>1. CASE w \in Widget
    <3>1. PICK ok \in Answers : won = Rises(w, ok)
      BY <1>3, <2>1 DEF Told
    <3>2. QED
      BY <2>1, <3>1, RoutesStayBelow DEF Node
  <2>2. CASE w \notin Widget
    BY <1>3, <2>2 DEF Told
  <2>3. QED
    BY <2>1, <2>2
<1>5. TypeOK'
  BY <1>1, <1>2, <1>3, <1>4 DEF TypeOK, NoEvent
<1>6. BackendsAreClosed'
  BY <1>1, <1>5 DEF WindowInv, BackendsAreClosed
<1>7. ASSUME ~upset' PROVE felt' = Concerned(w)'
  <2>1. felt = Concerned(focus) /\ lost = Concerned(focus) /\ won = Concerned(w)
    BY <1>1, <1>3, <1>7 DEF WindowInv, FeltMatchesFocus
  <2>2. Concerned(w)' = Concerned(w)
    BY <1>1, ConcernedStays
  <2>3. QED
    BY <1>3, <2>1, <2>2
<1>8. FeltMatchesFocus'
  BY <1>1, <1>7 DEF FeltMatchesFocus, Concerned
<1>9. QED
  BY <1>1, <1>6, <1>8 DEF WindowInv, Usable

LEMMA ReleaseInv ==
  ASSUME WindowInv, Release
  PROVE  WindowInv'
<1>1. TypeOK /\ stage = "idle" /\ holder = "node" /\ last' = NoEvent /\ stuck' = FALSE
      /\ stage' = (IF focus = Window THEN "lost" ELSE "gone")
      /\ UNCHANGED <<holder, open, parent, focus, felt, upset>>
  BY DEF WindowInv, BackendsAreClosed, Release, Quiet
<1>2. TypeOK'
  BY <1>1 DEF TypeOK, Stage, NoEvent
<1>3. BackendsAreClosed'
  BY <1>1, <1>2 DEF BackendsAreClosed
<1>4. focus = Window /\ ~upset => felt = {}
  BY <1>1, NobodyConcerned DEF WindowInv, FeltMatchesFocus, Usable
<1>5. FeltMatchesFocus'
  BY <1>1 DEF FeltMatchesFocus, Usable
<1>6. QED
  BY <1>1, <1>3, <1>4, <1>5 DEF WindowInv

LEMMA WindowNextInv ==
  ASSUME WindowInv, [Next]_vars
  PROVE  WindowInv'
<1>1. TypeOK /\ Window \in Node
  BY DEF WindowInv, BackendsAreClosed, Node
<1>2. CASE UNCHANGED vars
  BY <1>2 DEF vars, WindowInv, BackendsAreClosed, FeltMatchesFocus, TypeOK, Usable,
              Concerned, Subtree, Reached, Children
<1>3. CASE Construct
  <2>1. focus = None
    BY <1>3 DEF Construct, WindowInv
  <2>2. TypeOK' /\ BackendsAreClosed'
    BY <1>1, <1>3, <2>1 DEF Construct, Quiet, NoEvent, TypeOK, BackendsAreClosed, Usable, Stage
  <2>3. QED
    BY <1>3, <2>2, RestInv DEF Construct
<1>4. CASE Destroy
  <2>1. TypeOK' /\ BackendsAreClosed' /\ ~Usable'
    BY <1>1, <1>4 DEF Destroy, TryClose, NoEvent, TypeOK, BackendsAreClosed, Usable, Stage
  <2>2. QED
    BY <1>4, <2>1, RestInv DEF Destroy
<1>5. CASE Regain \/ Ruin
  <2>1. /\ stage \in {"idle", "showing", "lost"} /\ stage' \in {"idle", "ruined"}
        /\ stage' = "ruined" \/ Usable'
        /\ last' = NoEvent /\ stuck' = FALSE
        /\ UNCHANGED <<holder, open, parent, focus, felt, upset>>
    BY <1>5 DEF Regain, Ruin, Quiet, Usable
  <2>2. TypeOK'
    BY <1>1, <2>1 DEF NoEvent, TypeOK, Stage
  <2>3. BackendsAreClosed'
    BY <2>1, <2>2 DEF WindowInv, BackendsAreClosed
  <2>4. QED
    BY <2>1, <2>2, <2>3, RestInv
<1>6. CASE Close
  <2>1. TypeOK' /\ BackendsAreClosed'
    BY <1>1, <1>6 DEF Close, TryClose, NoEvent, TypeOK, WindowInv, BackendsAreClosed
  <2>2. QED
    BY <1>6, <2>1, RestInv DEF Close, Usable
<1>7. CASE Show \/ ShowEnds
  <2>1. /\ Usable /\ Usable' /\ stage' \in {"idle", "showing"}
        /\ last' = NoEvent /\ stuck' = FALSE
        /\ UNCHANGED <<holder, open, parent, focus, felt, upset>>
    BY <1>7 DEF Show, ShowEnds, Quiet, Usable
  <2>2. TypeOK'
    BY <1>1, <2>1 DEF NoEvent, TypeOK, Stage
  <2>3. BackendsAreClosed'
    BY <2>1, <2>2 DEF WindowInv, BackendsAreClosed
  <2>4. QED
    BY <2>1, <2>2, <2>3, RestInv DEF Usable
<1>8. CASE Closed
  <2>1. PICK ok \in Answers : Handled("closed", Asked(Window, ok), ok)
    BY <1>8 DEF Closed
  <2>2. open' \in BOOLEAN /\ stuck' \in BOOLEAN
    BY <1>1, <1>8 DEF Closed, TryClose, TypeOK
  <2>3. Asked(Window, ok) \subseteq Node
    BY <1>1, RoutesStayBelow DEF Node
  <2>4. TypeOK'
    BY <1>1, <1>8, <2>1, <2>2, <2>3 DEF Closed, Handled, TypeOK, Event
  <2>5. BackendsAreClosed'
    BY <1>8, <2>4 DEF Closed, WindowInv, BackendsAreClosed, Usable
  <2>6. QED
    BY <1>8, <2>4, <2>5, RestInv DEF Closed, Usable
<1>9. CASE Plain \/ Own
  <2>1. PICK ok \in Answers, e \in Event : Handled(e, Rises(Window, ok), ok)
    BY <1>9 DEF Plain, Own, Event
  <2>2. Rises(Window, ok) \subseteq Node
    BY <1>1, RoutesStayBelow DEF Node
  <2>3. TypeOK'
    BY <1>1, <1>9, <2>1, <2>2 DEF Plain, Own, Handled, TypeOK
  <2>4. BackendsAreClosed'
    BY <1>9, <2>3 DEF Plain, Own, WindowInv, BackendsAreClosed, Usable
  <2>5. QED
    BY <1>9, <2>3, <2>4, RestInv DEF Plain, Own, Usable
<1>10. QED
  BY <1>2, <1>3, <1>4, <1>5, <1>6, <1>7, <1>8, <1>9, ReleaseInv, LinkInv, SetFocusFelt DEF Next

LEMMA AlwaysWindowInv == Spec => []WindowInv
<1>1. Init => WindowInv
  BY WindowInitInv
<1>2. WindowInv /\ [Next]_vars => WindowInv'
  BY WindowNextInv
<1>3. QED
  BY <1>1, <1>2, PTL DEF Spec

\* A backend left open behind a window had a constructor that threw, a Node for
\* an owner, a deletion under its owner or a close that failed; and only a
\* window that a Node holds has a focus.
THEOREM BackendsStayClosed == Spec => []BackendsAreClosed
<1>1. WindowInv => BackendsAreClosed
  BY DEF WindowInv
<1>2. QED
  BY <1>1, AlwaysWindowInv, PTL

\* Unless a handler refused a notice or the tree changed below the focused
\* widget, the focused widget and those below it feel focused, and no others;
\* none does while the focus is the window's own.
THEOREM FeltStaysFocus == Spec => []FeltMatchesFocus
<1>1. WindowInv => FeltMatchesFocus
  BY DEF WindowInv
<1>2. QED
  BY <1>1, AlwaysWindowInv, PTL

-----------------------------------------------------------------------------
(* Closing.                                                                *)

\* The recursion of Sinks.
IsAgreement(f, ok) == f = [m \in Node |-> ok[m] /\ \A c \in Children(m) : f[c]]
Agreement(ok) == CHOOSE f : IsAgreement(f, ok)

ChildrenAreNodes == \A m \in Node : Children(m) \subseteq Widget /\ Children(m) \subseteq Node

LEMMA ChildNodes == ChildrenAreNodes
BY DEF ChildrenAreNodes, Children, Node

\* A subtree is its root and the subtrees of its children.
LEMMA SubtreeOfChildren ==
  ASSUME NEW m \in Node
  PROVE  Subtree(m) = {m} \cup UNION {Subtree(c) : c \in Children(m)}
<1> DEFINE T == {m} \cup UNION {Subtree(c) : c \in Children(m)}
<1>1. \A n \in Node : /\ n \in Subtree(n)
                      /\ \A x \in Subtree(n) : Children(x) \subseteq Subtree(n)
  BY SubtreeHolds
<1>2. Children(m) \subseteq Node
  BY ChildNodes DEF ChildrenAreNodes
<1>3. Subtree(m) \subseteq T
  <2>1. m \in T
    OBVIOUS
  <2>2. \A x \in T : Children(x) \subseteq T
    BY <1>1, <1>2
  <2> HIDE DEF T
  <2>3. QED
    BY <2>1, <2>2, SubtreeIsLeast DEF SubtreesAreLeast
<1>4. ASSUME NEW c \in Children(m)
      PROVE  Subtree(c) \subseteq Subtree(m)
  <2>1. c \in Node /\ c \in Subtree(m) /\ \A x \in Subtree(m) : Children(x) \subseteq Subtree(m)
    BY <1>1, <1>2
  <2>2. PICK U : U = Subtree(m)
    OBVIOUS
  <2>3. c \in U /\ \A x \in U : Children(x) \subseteq U
    BY <2>1, <2>2
  <2>4. QED
    BY <2>1, <2>2, <2>3, SubtreeIsLeast DEF SubtreesAreLeast
<1>5. T \subseteq Subtree(m)
  BY <1>1, <1>4
<1>6. QED
  BY <1>3, <1>5

\* All agree in a subtree when its root does and all agree below the children:
\* the recursion has a solution.
LEMMA AgreementExists ==
  ASSUME NEW ok \in Answers
  PROVE  IsAgreement(Agreement(ok), ok)
<1> DEFINE f == [m \in Node |-> \A x \in Subtree(m) : ok[x]]
<1>1. ASSUME NEW m \in Node
      PROVE  f[m] <=> ok[m] /\ \A c \in Children(m) : f[c]
  <2>1. \A c \in Children(m) : f[c] <=> \A x \in Subtree(c) : ok[x]
    BY ChildNodes DEF ChildrenAreNodes
  <2>2. f[m] <=> \A x \in Subtree(m) : ok[x]
    OBVIOUS
  <2> HIDE DEF f
  <2>3. QED
    BY <2>1, <2>2, SubtreeOfChildren
<1>2. \A m \in Node : f[m] = (ok[m] /\ \A c \in Children(m) : f[c])
  BY <1>1 DEF Answers
<1>3. IsAgreement(f, ok)
  <2>1. f = [m \in Node |-> f[m]]
    OBVIOUS
  <2> HIDE DEF f
  <2>2. QED
    BY <1>2, <2>1 DEF IsAgreement
<1>4. QED
  BY <1>3 DEF Agreement

LEMMA SinksIs ==
  ASSUME NEW ok \in Answers
  PROVE  Sinks(Window, ok) = Agreement(ok)[Window]
BY DEF Sinks, Agreement, IsAgreement

LEMMA AgreementAt ==
  ASSUME NEW ok \in Answers, NEW m \in Node
  PROVE  Agreement(ok)[m] = (ok[m] /\ \A c \in Children(m) : Agreement(ok)[c])
BY AgreementExists DEF IsAgreement

\* Who is asked: the window, and the children of those that agree.
LEMMA AskedHolds ==
  ASSUME NEW ok \in Answers
  PROVE  /\ Window \in Asked(Window, ok)
         /\ Asked(Window, ok) \subseteq InWindow
         /\ \A x \in Asked(Window, ok) : ok[x] => Children(x) \subseteq Asked(Window, ok)
         /\ \A T : /\ Window \in T
                   /\ \A x \in T : x \in Node /\ ok[x] => Children(x) \subseteq T
                   => Asked(Window, ok) \subseteq T
<1> DEFINE agree == {x \in Node : ok[x]}
           A == Asked(Window, ok)
<1>1. /\ Window \in A /\ A \subseteq {Window} \cup Widget
      /\ \A w \in Widget :
           w \in A <=> w = Window \/ \A S \in SUBSET Widget :
             (\A x \in agree \cap ({Window} \cup S) : Children(x) \subseteq S) => w \in S
  BY DEF Asked, Reached
<1> HIDE DEF A, agree
<1>2. ASSUME NEW x \in A, ok[x], NEW c \in Children(x)
      PROVE  c \in A
  <2>1. x \in agree /\ c \in Widget
    BY <1>1, <1>2 DEF agree, Node, Children
  <2>2. ASSUME NEW S \in SUBSET Widget, \A y \in agree \cap ({Window} \cup S) : Children(y) \subseteq S
        PROVE  c \in S
    <3>1. x = Window \/ x \in S
      BY <1>1, <1>2, <2>2
    <3>2. QED
      BY <1>2, <2>1, <2>2, <3>1
  <2>3. QED
    BY <1>1, <2>1, <2>2
<1>3. ASSUME NEW T, Window \in T, \A x \in T : x \in Node /\ ok[x] => Children(x) \subseteq T
      PROVE  A \subseteq T
  <2> DEFINE S == T \cap Widget
  <2>1. S \in SUBSET Widget /\ \A x \in agree \cap ({Window} \cup S) : Children(x) \subseteq S
    BY <1>3 DEF agree, Children
  <2> HIDE DEF S
  <2>2. \A w \in A : w = Window \/ w \in S
    BY <1>1, <2>1
  <2>3. QED
    BY <1>3, <2>2 DEF S
<1>4. A \subseteq InWindow
  <2>1. Window \in Node
    BY DEF Node
  <2>2. PICK T : T = InWindow
    OBVIOUS
  <2>3. Window \in T /\ \A x \in T : Children(x) \subseteq T
    BY <2>1, <2>2, SubtreeHolds DEF InWindow
  <2>4. QED
    BY <1>3, <2>2, <2>3
<1>5. QED
  BY <1>1, <1>2, <1>3, <1>4 DEF A

\* If the window's agreement stands, everybody in it was asked and agreed.
LEMMA AgreementIsComplete ==
  ASSUME NEW ok \in Answers, Agreement(ok)[Window]
  PROVE  Asked(Window, ok) = InWindow /\ \A x \in InWindow : ok[x]
<1> DEFINE T == {x \in Node : Agreement(ok)[x]}
<1>1. Window \in Node
  BY DEF Node
<1>2. \A x \in T : ok[x] /\ Children(x) \subseteq T
  BY AgreementAt, ChildNodes DEF ChildrenAreNodes
<1>3. Window \in T
  BY <1>1
<1> HIDE DEF T
<1>4. InWindow \subseteq T
  BY <1>1, <1>2, <1>3, SubtreeIsLeast DEF SubtreesAreLeast, InWindow
<1>5. PICK A : A = Asked(Window, ok)
  OBVIOUS
<1>6. Window \in A /\ A \subseteq InWindow /\ \A x \in A : ok[x] => Children(x) \subseteq A
  BY <1>5, AskedHolds
<1>7. InWindow \subseteq A
  BY <1>1, <1>2, <1>4, <1>6, SubtreeIsLeast DEF SubtreesAreLeast, InWindow
<1>8. QED
  BY <1>2, <1>4, <1>5, <1>6, <1>7

\* If all that were asked agree, so does the window: otherwise each of those
\* that do not, the window first, would have a child among them, more children
\* than there are widgets.
LEMMA AgreementIsFound ==
  ASSUME NEW ok \in Answers, \A x \in Asked(Window, ok) : ok[x],
         parent \in [Widget -> Node \cup {None}]
  PROVE  Agreement(ok)[Window]
<1> DEFINE B == {w \in Widget : w \in Asked(Window, ok) /\ ~Agreement(ok)[w]}
           C == {w \in B : parent[w] \in B \cup {Window}}
<1>1. SUFFICES ASSUME ~Agreement(ok)[Window] PROVE FALSE
  OBVIOUS
<1>2. ASSUME NEW x \in B \cup {Window}
      PROVE  \E c \in C : parent[c] = x
  <2>1. x \in Asked(Window, ok) /\ x \in Node /\ ~Agreement(ok)[x] /\ ok[x]
    BY <1>1, AskedHolds DEF Node
  <2>2. PICK c \in Children(x) : ~Agreement(ok)[c]
    BY <2>1, AgreementAt
  <2>3. c \in Widget /\ parent[c] = x /\ c \in Asked(Window, ok)
    BY <2>1, <2>2, AskedHolds DEF Children
  <2>4. QED
    BY <2>2, <2>3
<1> HIDE DEF B
<1>3. IsFiniteSet(B) /\ Window \notin B
  <2>1. B \subseteq Widget
    BY DEF B
  <2>2. QED
    BY <2>1, WidgetsAreFinite, WindowIsNoWidget, FS_Subset
<1>4. IsFiniteSet(C) /\ Cardinality(C) <= Cardinality(B) /\ Cardinality(B) \in Nat
  BY <1>3, FS_Subset, FS_CardinalityType
<1>5. Cardinality(B \cup {Window}) = Cardinality(B) + 1
  BY <1>3, FS_AddElement
<1> DEFINE up == [c \in C |-> parent[c]]
<1>6. up \in Surjection(C, B \cup {Window})
  <2>1. up \in [C -> B \cup {Window}]
    OBVIOUS
  <2>2. \A x \in B \cup {Window} : \E c \in C : up[c] = x
    BY <1>2
  <2>3. QED
    BY <2>1, <2>2 DEF Surjection
<1>7. Cardinality(B \cup {Window}) <= Cardinality(C)
  <2>1. PICK S, T : S = C /\ T = B \cup {Window}
    OBVIOUS
  <2>2. IsFiniteSet(S) /\ up \in Surjection(S, T)
    BY <1>4, <1>6, <2>1
  <2>3. Cardinality(T) <= Cardinality(S)
    BY <2>2, FS_Surjection
  <2>4. QED
    BY <2>1, <2>3
<1>8. Cardinality(C) \in Nat
  BY <1>4, FS_CardinalityType
<1>9. QED
  BY <1>4, <1>5, <1>7, <1>8

Consent ==
  last'.event = "closed" /\ open =>
    IF last'.refused = {} THEN open' = stuck' /\ last'.ran = InWindow
                          ELSE open' /\ ~stuck'

\* One event that closes the window, or does not.
LEMMA ClosedByConsent ==
  ASSUME TypeOK, Closed, open
  PROVE  Consent
<1>1. PICK ok \in Answers :
        /\ Handled("closed", Asked(Window, ok), ok)
        /\ \/ Sinks(Window, ok) /\ TryClose
           \/ ~Sinks(Window, ok) /\ open' = open /\ stuck' = FALSE
  BY DEF Closed
<1>2. last'.ran = Asked(Window, ok) /\ last'.refused = {n \in Asked(Window, ok) : ~ok[n]}
  BY <1>1 DEF Handled
<1>3. CASE Agreement(ok)[Window]
  <2>1. Asked(Window, ok) = InWindow /\ \A x \in InWindow : ok[x]
    BY <1>3, AgreementIsComplete
  <2>2. open' = stuck'
    BY <1>1, <1>3, SinksIs DEF TryClose
  <2>3. QED
    BY <1>2, <2>1, <2>2 DEF Consent
<1>4. CASE ~Agreement(ok)[Window]
  <2>1. \E x \in Asked(Window, ok) : ~ok[x]
    BY <1>4, AgreementIsFound DEF TypeOK
  <2>2. open' /\ ~stuck'
    BY <1>1, <1>4, SinksIs
  <2>3. QED
    BY <1>2, <2>1, <2>2 DEF Consent
<1>5. QED
  BY <1>3, <1>4

\* While shown, a window is asked to close by an event only if every widget in it
\* was asked and agreed, stays open untried only if one refused, and stays open
\* when all agreed only if the backend did not close.
THEOREM ClosesOnlyByConsent == Spec => ClosesByConsent
<1>1. WindowInv /\ [Next]_vars => [Consent]_vars
  <2> SUFFICES ASSUME WindowInv, Next
               PROVE  Consent
    OBVIOUS
  <2>1. CASE Closed /\ open
    BY <2>1, ClosedByConsent DEF WindowInv, BackendsAreClosed
  <2>2. CASE last' = NoEvent \/ ~open
    BY <2>2 DEF NoEvent, Consent
  <2>3. CASE Plain \/ Own
    <3>1. \/ \E ran, ok : Handled("plain", ran, ok)
          \/ \E ran, ok : Handled("own", ran, ok)
      BY <2>3 DEF Plain, Own
    <3>2. \A e, ran, ok : Handled(e, ran, ok) => last'.event = e
      BY DEF Handled
    <3>3. last'.event # "closed"
      BY <3>1, <3>2
    <3>4. QED
      BY <3>3 DEF Consent
  <2>4. Next => Closed \/ Plain \/ Own \/ last' = NoEvent
    BY DEF Next, Construct, Destroy, Release, Regain, Ruin, Close, Show, ShowEnds, Link,
           SetFocus, Quiet
  <2>5. QED
    BY <2>1, <2>2, <2>3, <2>4
<1>2. Spec => [][Consent]_vars
  BY <1>1, AlwaysWindowInv, PTL DEF Spec
<1>3. QED
  BY <1>2 DEF ClosesByConsent, Consent
=============================================================================

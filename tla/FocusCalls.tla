----------------------------- MODULE FocusCalls -----------------------------
(***************************************************************************)
(* Window::setFocus (gui/gui.hpp) call by call.  It runs the handlers of   *)
(* the widget that loses the focus and of the one that gets it, and they   *)
(* may call setFocus again, change the tree, or throw.  WindowEvents has   *)
(* the ways of a notice through a subtree and handlers that only answer;   *)
(* here every widget is alone and its handler may do anything.             *)
(***************************************************************************)
EXTENDS Naturals, Sequences

CONSTANTS Focusable, Nobody,
          MaxDepth  \* bound on calls of setFocus within each other

VARIABLES
  inside,   \* the widgets in the tree of the window
  focused,  \* Window::focus
  feeling,  \* history: widgets whose last notice was onFocusIn
  calls,    \* the calls of setFocus that run, each in a handler it called
  strained  \* history: a handler called setFocus while its own widget was about
            \* to lose the focus, or threw instead of letting it go

focusVars == <<inside, focused, feeling, calls, strained>>

CallInit ==
  /\ inside \in SUBSET Focusable
  /\ focused = Nobody
  /\ feeling = {}
  /\ calls = <<>>
  /\ strained = FALSE

InHandler(notice) == calls # <<>> /\ calls[Len(calls)].notice = notice

Below == SubSeq(calls, 1, Len(calls) - 1)

\* The second half of setFocus, on top of the calls "under": the widget has
\* the focus, and then its handler starts.
Focus(w, under) ==
  /\ focused' = w
  /\ calls' = IF w = Nobody THEN under ELSE Append(under, [to |-> w, notice |-> "in"])
  /\ feeling' = feeling \cup ({w} \ {Nobody})

\* Fault: the focus has gone over when the loser's handler runs.
CallFocusFirst(w) ==
  /\ Len(calls) < MaxDepth
  /\ w \in inside \cup {Nobody}
  /\ focused' = w
  /\ calls' = IF focused = Nobody THEN calls ELSE Append(calls, [to |-> w, notice |-> "out"])
  /\ feeling' = feeling \ {focused}
  /\ strained' = (strained \/ InHandler("out"))
  /\ UNCHANGED inside

\* setFocus, until the first handler starts; a widget outside is refused.
CallSetFocus(w) ==
  /\ Len(calls) < MaxDepth
  /\ w \in inside \cup {Nobody}
  /\ IF focused = Nobody THEN Focus(w, calls)
     ELSE /\ calls' = Append(calls, [to |-> w, notice |-> "out"])
          /\ feeling' = feeling \ {focused}
          /\ UNCHANGED focused
  /\ strained' = (strained \/ InHandler("out"))
  /\ UNCHANGED inside

\* The handler of the last call returns.
LetGo ==
  /\ InHandler("out")
  /\ Focus(calls[Len(calls)].to, Below)
  /\ UNCHANGED <<inside, strained>>

Return ==
  /\ InHandler("in")
  /\ calls' = Below
  /\ UNCHANGED <<inside, focused, feeling, strained>>

\* The handler throws, through the calls behind the n-th one, whose handler
\* catches; with n = 0 nobody in them does.
Throw(n) ==
  /\ n < Len(calls)
  /\ calls' = SubSeq(calls, 1, n)
  /\ strained' = (strained \/ \E i \in (n + 1)..Len(calls) : calls[i].notice = "out")
  /\ UNCHANGED <<inside, focused, feeling>>

\* The tree changes, in a handler or between two calls.
Move(w) ==
  /\ inside' = IF w \in inside THEN inside \ {w} ELSE inside \cup {w}
  /\ UNCHANGED <<focused, feeling, calls, strained>>

CallNext ==
  \/ \E w \in Focusable \cup {Nobody} : CallSetFocus(w)
  \/ LetGo \/ Return
  \/ \E n \in 0..(MaxDepth - 1) : Throw(n)
  \/ \E w \in Focusable : Move(w)

CallSpec == CallInit /\ [][CallNext]_focusVars

(***************************************************************************)
(* Properties.                                                             *)
(***************************************************************************)
\* The focused widget feels focused, and no other one does, in every handler
\* and after every call, but for the handler of a widget that is about to lose
\* the focus, where nobody does.  Handlers may set the focus again, and they may
\* throw when they are told that they got it; widgets may come and go.  Only a
\* handler that does not let go spoils this for good: setFocus has yet to
\* overwrite what it sets there, without telling that widget, and does not come
\* to it when it throws (gui.hpp, 416 to 419).
FocusSettles ==
  /\ {focused} \cup feeling \subseteq Focusable \cup {Nobody}
  /\ ~strained => feeling = IF InHandler("out") THEN {} ELSE {focused} \ {Nobody}
=============================================================================

---------------------------- MODULE WindowEvents ----------------------------
(***************************************************************************)
(* The window of cigmar/gui/gui.hpp: its tree of widgets, the routing of   *)
(* the events that its backend polls, and the focus.                       *)
(*                                                                         *)
(* An event goes through the tree within one call, so a step is one event. *)
(* The answer of every handler is chosen anew for every event; what        *)
(* handlers do beyond answering is a step of its own.  Drawing, sizes and  *)
(* the arguments of events are left out.                                   *)
(***************************************************************************)
EXTENDS Naturals, FiniteSets

CONSTANTS Widget, Window, None

ASSUME WindowIsNoWidget == Window \notin Widget
ASSUME NoneIsNoNode == None \notin Widget \cup {Window}
ASSUME WidgetsAreFinite == IsFiniteSet(Widget)

VARIABLES
  stage,  \* of the Window
  holder, \* what owns it: a Node, or a scope or another object
  open,   \* isOpen() of the backend
  stuck,  \* this step asked the backend to close, and it did not
  parent, \* the tree
  focus,  \* the node in Window::focus
  felt,   \* history: widgets whose last notice of focus was onFocusIn
  upset,  \* history: a notice of focus was refused, or the tree changed
          \* under the focused widget
  last    \* the event this step handled, whose handlers ran and which refused

vars == <<stage, holder, open, stuck, parent, focus, felt, upset, last>>

Node == Widget \cup {Window}

\* A lost window is held by its own focus only; a ruined one was deleted though
\* no Node owns it.
Stage == {"absent", "refused", "idle", "showing", "gone", "lost", "ruined"}

\* Kinds of events: the close button; the window's own focus and mouse, which
\* Window passes to its widgets under other names; and all others, which
\* every widget gets under their own name.
Event == {"closed", "own", "plain"}

NoEvent == [event |-> "none", ran |-> {}, refused |-> {}]

(***************************************************************************)
(* The tree.                                                               *)
(***************************************************************************)
Children(n) == {w \in Widget : parent[w] = n}

\* n and what is reached from it, going on to the children only from nodes of
\* "through": the widgets that are in every set such steps do not leave.
Reached(n, through) ==
  LET Complete == {S \in SUBSET Widget :
                     \A x \in through \cap ({n} \cup S) : Children(x) \subseteq S}
  IN  {n} \cup {w \in Widget : \A S \in Complete : w \in S}

\* n and all below it.
Subtree(n) == Reached(n, Node)

InWindow == Subtree(Window)

(***************************************************************************)
(* Routing.  "ok" tells which handlers agree; a node without a handler     *)
(* does.                                                                   *)
(***************************************************************************)
Answers == [Node -> BOOLEAN]

\* Most events rise: onXBefore asks all the children, whatever each says, and
\* the node's own handler runs only if all of them passed.  The nodes whose
\* handler runs when n gets the event:
Rises(n, ok) ==
  LET Passed[m \in Node] == ok[m] /\ \A c \in Children(m) : Passed[c]
  IN {m \in Subtree(n) : \A c \in Children(m) : Passed[c]}

\* Fault: the answer of the last child replaces those before it.
SinksLast(n, ok) ==
  LET Agreed[m \in Node] ==
        ok[m] /\ (Children(m) = {} \/ \E c \in Children(m) : Agreed[c])
  IN Agreed[n]

\* onClosed sinks: a node's handler runs first, and only if it agrees are the
\* children asked, in onClosedAfter; the answer is that of all of them.
Sinks(n, ok) ==
  LET Agreed[m \in Node] == ok[m] /\ \A c \in Children(m) : Agreed[c]
  IN Agreed[n]

\* The nodes that are asked on the way down.
Asked(n, ok) == Reached(n, {x \in Node : ok[x]})

(***************************************************************************)
(* Steps.                                                                  *)
(***************************************************************************)
Handled(e, ran, ok) ==
  last' = [event |-> e, ran |-> ran, refused |-> {n \in ran : ~ok[n]}]

Quiet == last' = NoEvent /\ stuck' = FALSE

\* Window::close.  An open backend is asked to close; what it answers is ignored.
TryClose == open' \in {FALSE, open} /\ stuck' = open'

Init ==
  /\ stage = "absent"
  /\ holder = "none"
  /\ open = FALSE
  /\ stuck = FALSE
  /\ parent = [w \in Widget |-> None]
  /\ focus = None
  /\ felt = {}
  /\ upset = FALSE
  /\ last = NoEvent

\* Window's constructor opens the backend.  If that comes back with other
\* properties than required, the constructor throws, and the destructor, which
\* would close it, never runs.
Construct ==
  /\ stage = "absent"
  /\ stage' \in {"idle", "refused"}
  /\ holder' \in {"node", "object"}
  /\ open' = TRUE
  /\ UNCHANGED <<parent, focus, felt, upset>> /\ Quiet

\* Fault: the backend is left to close itself.
DestroyOnly ==
  /\ stage = "idle" /\ holder = "object"
  /\ stage' = "gone"
  /\ focus' = None
  /\ UNCHANGED <<holder, open, parent, felt, upset>> /\ Quiet

\* ~Window, of a window that is no Node's; the handle on the focused node goes
\* with it.
Destroy ==
  /\ stage = "idle" /\ holder = "object"
  /\ stage' = "gone"
  /\ TryClose
  /\ focus' = None
  /\ last' = NoEvent
  /\ UNCHANGED <<holder, parent, felt, upset>>

\* The last Node goes that holds the window from outside.  It deletes it as a
\* Content, whose destructor is not virtual: ~Window does not run, the backend
\* stays as it is and the handle in focus is never let go.  A window with the
\* focus on itself is not even deleted.
Release ==
  /\ stage = "idle" /\ holder = "node"
  /\ stage' = IF focus = Window THEN "lost" ELSE "gone"
  /\ UNCHANGED <<holder, open, parent, focus, felt, upset>> /\ Quiet

\* root() of a widget in it makes a new Node of a lost window.
Regain ==
  /\ stage = "lost"
  /\ InWindow # {Window}
  /\ stage' = "idle"
  /\ UNCHANGED <<holder, open, parent, focus, felt, upset>> /\ Quiet

Usable == stage \in {"idle", "showing"}

\* setFocus of any widget makes Nodes of the window to compare it with the
\* widget's root, as parent() and root() of a widget in it do: if no other Node
\* holds the window, they count from zero to zero and delete it.
Ruin ==
  /\ Usable /\ holder = "object"
  /\ stage' = "ruined"
  /\ UNCHANGED <<holder, open, parent, focus, felt, upset>> /\ Quiet

Close ==
  /\ Usable /\ open
  /\ TryClose
  /\ last' = NoEvent
  /\ UNCHANGED <<stage, holder, parent, focus, felt, upset>>

\* The tree changes; its rules are those of NodeTree.  The window takes two
\* children at most.
Link(w, p) ==
  /\ Usable
  /\ p # parent[w]
  /\ p \notin Subtree(w)
  /\ p = Window => Cardinality(Children(Window)) < 2
  /\ parent' = [parent EXCEPT ![w] = p]
  /\ upset' = (upset \/ /\ focus \in Widget
                        /\ \/ w \in Subtree(focus) \ {focus}
                           \/ p \in Subtree(focus))
  /\ UNCHANGED <<stage, holder, open, focus, felt>> /\ Quiet

\* The sets of widgets whose own handler may run when n is told of its focus.  The
\* window passes its notices on to the widgets as onWindowFocusIn and
\* onWindowFocusOut, which are not notices of their focus.
Told(n) == IF n \in Widget THEN {Rises(n, ok) : ok \in Answers} ELSE {{}}

Concerned(n) == IF n \in Widget THEN Subtree(n) ELSE {}

\* onFocusOut goes to "from" and onFocusIn to "to"; None stands for nobody.
Notify(from, to) ==
  \E lost \in Told(from), won \in Told(to) :
    /\ felt' = (felt \ lost) \cup won
    /\ upset' = (upset \/ lost # Concerned(from) \/ won # Concerned(to))

\* Fault: the node that loses the focus to another is not told.
SetFocusSilently(w) ==
  /\ Usable
  /\ w # None => holder = "node" /\ w \in InWindow
  /\ focus' = w
  /\ Notify(IF w = None THEN focus ELSE None, w)
  /\ UNCHANGED <<stage, holder, open, parent>> /\ Quiet

\* setFocus, also of the window itself.  The node must be in the window now;
\* nothing keeps it there.
SetFocus(w) ==
  /\ Usable
  /\ w # None => holder = "node" /\ w \in InWindow
  /\ focus' = w
  /\ Notify(focus, w)
  /\ UNCHANGED <<stage, holder, open, parent>> /\ Quiet

Show ==
  /\ stage = "idle" /\ open
  /\ stage' = "showing"
  /\ UNCHANGED <<holder, open, parent, focus, felt, upset>> /\ Quiet

\* The queue of events is empty and the backend closed.
ShowEnds ==
  /\ stage = "showing" /\ ~open
  /\ stage' = "idle"
  /\ UNCHANGED <<holder, open, parent, focus, felt, upset>> /\ Quiet

\* One event of the loop in show().  The queue is polled until it is empty,
\* even if the backend has been closed meanwhile.
Closed ==
  /\ stage = "showing"
  /\ \E ok \in Answers :
       /\ Handled("closed", Asked(Window, ok), ok)
       /\ \/ Sinks(Window, ok) /\ TryClose
          \/ ~Sinks(Window, ok) /\ open' = open /\ stuck' = FALSE
  /\ UNCHANGED <<stage, holder, parent, focus, felt, upset>>

Plain ==
  /\ stage = "showing"
  /\ \E ok \in Answers : Handled("plain", Rises(Window, ok), ok)
  /\ stuck' = FALSE
  /\ UNCHANGED <<stage, holder, open, parent, focus, felt, upset>>

\* The window gains or loses the focus or the mouse of the system: its widgets
\* get onWindowFocusIn and the like, which are not notices of their own focus.
Own ==
  /\ stage = "showing"
  /\ \E ok \in Answers : Handled("own", Rises(Window, ok), ok)
  /\ stuck' = FALSE
  /\ UNCHANGED <<stage, holder, open, parent, focus, felt, upset>>

Next ==
  \/ Construct \/ Destroy \/ Release \/ Regain \/ Ruin
  \/ Close \/ Show \/ ShowEnds
  \/ Closed \/ Plain \/ Own
  \/ \E w \in Widget, p \in Node \cup {None} : Link(w, p)
  \/ \E w \in Node \cup {None} : SetFocus(w)

Spec == Init /\ [][Next]_vars

(***************************************************************************)
(* Properties.                                                             *)
(***************************************************************************)
TypeOK ==
  /\ stage \in Stage
  /\ holder \in {"none", "node", "object"}
  /\ open \in BOOLEAN
  /\ stuck \in BOOLEAN
  /\ parent \in [Widget -> Node \cup {None}]
  /\ focus \in Node \cup {None}
  /\ felt \subseteq Widget
  /\ upset \in BOOLEAN
  /\ last \in [event : Event \cup {"none"}, ran : SUBSET Node,
               refused : SUBSET Node]

\* A window leaves its backend open behind it only if its constructor threw, if
\* a Node held it, whose deletion is not ~Window's, if it was deleted under its
\* owner, or if the backend did not close when asked; and only one that a Node
\* holds ever has a focus to leave behind (Window's constructor, ~Window, close,
\* setFocus, and Node::clear).
BackendsAreClosed ==
  /\ TypeOK
  /\ open /\ ~Usable =>
       stage \in {"refused", "ruined"} \/ holder = "node" \/ stuck
  /\ focus # None => holder = "node"

\* The widgets that feel focused are the focused one and those below it, and
\* none while the window's own node has the focus, as long as no handler refused
\* a notice and the tree under the focused widget stayed as it was; what the
\* system does to the window's focus, and where the focused widget itself is
\* moved, play no part (setFocus, onFocusInBefore and Window's overrides of it).
FeltMatchesFocus ==
  Usable /\ ~upset => felt = Concerned(focus)

\* While shown, a window is asked to close by an event only if every widget in it
\* was asked and agreed, stays open untried only if one refused, and stays open
\* when all agreed only if the backend did not do as asked (onClosed, close).
ClosesByConsent ==
  [][last'.event = "closed" /\ open =>
       IF last'.refused = {} THEN open' = stuck' /\ last'.ran = InWindow
                             ELSE open' /\ ~stuck']_vars
=============================================================================

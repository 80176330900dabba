--------------------------- MODULE CompositorProofs ---------------------------
(***************************************************************************)
(* The safety invariants of Compositor hold for any number of windows.     *)
(*                                                                         *)
(* ResizeWhileHeld is not inductive: a resize starts on the remembered     *)
(* state of the last button event, so the proof needs ButtonRemembered,    *)
(* and the running resize must be ended by whichever button is released.   *)
(***************************************************************************)
EXTENDS Compositor, TLAPS

\* The last event says "pressed" only while that button is held.
ButtonRemembered ==
  botton_state.state = "pressed" => botton_state.button \in held

\* A running resize was never interrupted by a release.
ResizePressed ==
  server = "running" /\ now_surface_request_resize => botton_state.state = "pressed"

Guarded ==
  /\ ButtonRemembered /\ ResizePressed /\ GrabHasView
  /\ ResizeOwnsPointer /\ OnlyResizedAwaits /\ ResizeCursorKept

LEMMA InitType == Init => TypeOK
<1> SUFFICES ASSUME Init PROVE TypeOK
  OBVIOUS
<1>1. over \subseteq InScene \X InScene
  BY DEF Init
<1>2. botton_state \in [button : Button \cup {"none"}, state : {"pressed", "released"}]
  BY DEF Init
<1> QED
  BY <1>1, <1>2 DEF Init, TypeOK, Layer, Button, Compos

LEMMA InitGuarded == Init => Guarded
  BY DEF Init, Guarded, ButtonRemembered, ResizePressed, GrabHasView,
         ResizeOwnsPointer, OnlyResizedAwaits, ResizeCursorKept

-----------------------------------------------------------------------------
(* Type correctness                                                        *)

\* Every step leaves the z-order a relation between trees of the scene: trees
\* are only added, and RaiseToTop relates the new or raised one to the others.
LEMMA OrderStep == ASSUME TypeOK, [Next]_vars
                   PROVE  over' \subseteq InScene' \X InScene'
<1> USE DEF TypeOK, vars, scene, InScene
<1>1. CASE UNCHANGED <<lifetime, layers, over>>
  BY <1>1
<1>2. ASSUME NEW v \in View, server_new_xdg_toplevel(v)
      PROVE  over' \subseteq InScene' \X InScene'
  BY <1>2 DEF server_new_xdg_toplevel, RaiseToTop
<1>3. ASSUME NEW v \in View, displaypush(v) \/ displaypull(v) \/ toplevel_destroy(v)
      PROVE  over' \subseteq InScene' \X InScene'
  BY <1>3 DEF displaypush, displaypull, toplevel_destroy, Live
<1>4. ASSUME NEW n \in Layer, layer_shell_create(n)
      PROVE  over' \subseteq InScene' \X InScene'
  BY <1>4 DEF layer_shell_create, RaiseToTop
<1>5. ASSUME NEW b \in Button, NEW n \in Hittable \cup {NULL}, Press(b, n)
      PROVE  over' \subseteq InScene' \X InScene'
  <2>1. n # NULL => n \in InScene
    BY DEF Hittable, Mapped
  <2> QED
    BY <1>5, <2>1 DEF Press, RaiseToTop
<1>6. CASE newinput_mouce
  BY <1>6, <1>1 DEF newinput_mouce, MotionOverDesktop, MotionOverLayer, MotionOverEdge, EnterResizeBand,
     MotionOverTitle, MotionInside, MotionResizing, MotionFault
<1>7. ASSUME NEW b \in Button, Release(b)
      PROVE  over' \subseteq InScene' \X InScene'
  BY <1>7, <1>1 DEF Release, EndMove, EndResize
<1>8. CASE Escape \/ AttachKeyboard
  BY <1>8, <1>1 DEF Escape, AttachKeyboard
<1>9. ASSUME NEW v \in View,
             checkcomit(v) \/ request_surface_move(v) \/ get_cliant_cursor_image(v)
      PROVE  over' \subseteq InScene' \X InScene'
  BY <1>9, <1>1 DEF checkcomit, request_surface_move, get_cliant_cursor_image
<1> QED
  BY <1>1, <1>2, <1>3, <1>4, <1>5, <1>6, <1>7, <1>8, <1>9, NodeAssumption
     DEF Next, Client, User

LEMMA TypeStep == ASSUME TypeOK, [Next]_vars PROVE TypeOK'
<1>0. over' \subseteq InScene' \X InScene'
  BY OrderStep
<1> USE <1>0 DEF TypeOK, vars, scene, move, grip, seat, btn, zone
<1>1. ASSUME NEW v \in View, server_new_xdg_toplevel(v) PROVE TypeOK'
  BY <1>1 DEF server_new_xdg_toplevel
<1>2. ASSUME NEW v \in View, displaypush(v) PROVE TypeOK'
  BY <1>2 DEF displaypush
<1>3. ASSUME NEW v \in View, displaypull(v) PROVE TypeOK'
  BY <1>3 DEF displaypull
<1>4. ASSUME NEW v \in View, checkcomit(v) PROVE TypeOK'
  BY <1>4 DEF checkcomit
<1>5. ASSUME NEW v \in View, request_surface_move(v) PROVE TypeOK'
  BY <1>5 DEF request_surface_move, Mapped
<1>6. ASSUME NEW v \in View, toplevel_destroy(v) PROVE TypeOK'
  BY <1>6 DEF toplevel_destroy
<1>7. ASSUME NEW v \in View, get_cliant_cursor_image(v) PROVE TypeOK'
  BY <1>7 DEF get_cliant_cursor_image
<1>8. ASSUME NEW n \in Layer, layer_shell_create(n) PROVE TypeOK'
  BY <1>8 DEF layer_shell_create
<1>9. CASE newinput_mouce
  <2> USE DEF TitleDrag
  <2>1. CASE MotionOverDesktop
    BY <2>1, ZenonT(30) DEF MotionOverDesktop
  <2>2. CASE MotionOverLayer
    <3>1. /\ surface_move_range' = FALSE
          /\ UNCHANGED <<server, scene, move, grip, seat, btn,
                         mouce_inside_resize_pos, cursor_image>>
      BY <2>2 DEF MotionOverLayer
    <3>2. /\ pending_serial' \in [View -> BOOLEAN]
          /\ lifetime' \in [View -> {"none", "unmapped", "mapped", "destroyed"}]
          /\ botton_state' \in [button : Button \cup {"none"}, state : {"pressed", "released"}]
      BY <3>1
    <3>3. /\ moving_view' \in View \cup {NULL} /\ resizing_view' \in View \cup {NULL}
          /\ pointer_focus' \in View \cup {NULL} /\ keyboard_focus' \in View \cup {NULL}
          /\ cursor_image' \in View \cup {Compos}
      BY <3>1
    <3>4. /\ server' \in {"running", "terminated", "undefined"}
          /\ layers' \subseteq Layer /\ held' \subseteq Button
      BY <3>1
    <3>5. /\ surface_move_state' \in BOOLEAN /\ surface_move_range' \in BOOLEAN
          /\ surface_move' \in BOOLEAN /\ now_surface_request_resize' \in BOOLEAN
          /\ mouce_inside_resize_pos' \in BOOLEAN /\ keyboard' \in BOOLEAN
      BY <3>1
    <3> QED
      BY <3>2, <3>3, <3>4, <3>5
  <2>3. ASSUME NEW v \in View, MotionOverEdge(v) PROVE TypeOK'
    BY <2>3 DEF MotionOverEdge, EnterResizeBand
  <2>4. ASSUME NEW v \in View, MotionOverTitle(v) PROVE TypeOK'
    BY <2>4 DEF MotionOverTitle, Focus
  <2>5. ASSUME NEW v \in View, MotionInside(v) PROVE TypeOK'
    BY <2>5, ZenonT(30) DEF MotionInside, Focus
  <2>6. CASE MotionResizing
    BY <2>6, ZenonT(30) DEF MotionResizing
  <2>7. CASE MotionFault
    BY <2>7 DEF MotionFault
  <2> QED
    BY <1>9, <2>1, <2>2, <2>3, <2>4, <2>5, <2>6, <2>7 DEF newinput_mouce
<1>10. ASSUME NEW b \in Button, NEW n \in Hittable \cup {NULL}, Press(b, n)
       PROVE  TypeOK'
  BY <1>10 DEF Press
<1>11. ASSUME NEW b \in Button, Release(b) PROVE TypeOK'
  BY <1>11 DEF Release, EndMove, EndResize
<1>12. CASE Escape \/ AttachKeyboard
  BY <1>12, ZenonT(30) DEF Escape, AttachKeyboard
<1>13. CASE UNCHANGED vars
  BY <1>13 DEF InScene
<1> QED
  BY <1>1, <1>2, <1>3, <1>4, <1>5, <1>6, <1>7, <1>8, <1>9, <1>10, <1>11, <1>12,
     <1>13, NodeAssumption DEF Next, Client, User

\* The state of the compositor keeps its type, with any number of windows.
THEOREM TypeCorrect == Spec => []TypeOK
<1>1. TypeOK /\ [Next]_vars => TypeOK'
  BY TypeStep
<1> QED
  BY InitType, <1>1, PTL DEF Spec

-----------------------------------------------------------------------------
(* The grabs                                                               *)

LEMMA GuardedStep == ASSUME TypeOK, Guarded, [Next]_vars PROVE Guarded'
<1> USE NodeAssumption
    DEF Guarded, ButtonRemembered, ResizePressed, GrabHasView, ResizeOwnsPointer,
        OnlyResizedAwaits, ResizeCursorKept, TypeOK, vars, scene, move, grip, seat,
        btn, zone
<1>1. ASSUME NEW v \in View, server_new_xdg_toplevel(v) PROVE Guarded'
  BY <1>1 DEF server_new_xdg_toplevel
<1>2. ASSUME NEW v \in View, displaypush(v) PROVE Guarded'
  BY <1>2 DEF displaypush
<1>3. ASSUME NEW v \in View, displaypull(v) PROVE Guarded'
  BY <1>3 DEF displaypull
<1>4. ASSUME NEW v \in View, checkcomit(v) PROVE Guarded'
  BY <1>4 DEF checkcomit
<1>5. ASSUME NEW v \in View, request_surface_move(v) PROVE Guarded'
  BY <1>5 DEF request_surface_move, Mapped
<1>6. ASSUME NEW v \in View, toplevel_destroy(v) PROVE Guarded'
  BY <1>6 DEF toplevel_destroy
<1>7. ASSUME NEW v \in View, get_cliant_cursor_image(v) PROVE Guarded'
  BY <1>7 DEF get_cliant_cursor_image
<1>8. ASSUME NEW n \in Layer, layer_shell_create(n) PROVE Guarded'
  BY <1>8 DEF layer_shell_create
<1>9. CASE newinput_mouce
  <2> USE DEF TitleDrag
  <2>1. CASE MotionOverDesktop
    BY <2>1 DEF MotionOverDesktop
  <2>2. CASE MotionOverLayer
    BY <2>2 DEF MotionOverLayer
  <2>3. ASSUME NEW v \in View, MotionOverEdge(v) PROVE Guarded'
    BY <2>3 DEF MotionOverEdge, EnterResizeBand
  <2>4. ASSUME NEW v \in View, MotionOverTitle(v) PROVE Guarded'
    BY <2>4 DEF MotionOverTitle, Focus
  <2>5. ASSUME NEW v \in View, MotionInside(v) PROVE Guarded'
    BY <2>5 DEF MotionInside, Focus
  <2>6. CASE MotionResizing
    BY <2>6 DEF MotionResizing
  <2>7. CASE MotionFault
    BY <2>7 DEF MotionFault
  <2> QED
    BY <1>9, <2>1, <2>2, <2>3, <2>4, <2>5, <2>6, <2>7 DEF newinput_mouce
<1>10. ASSUME NEW b \in Button, NEW n \in Hittable \cup {NULL}, Press(b, n)
       PROVE  Guarded'
  BY <1>10 DEF Press
<1>11. ASSUME NEW b \in Button, Release(b) PROVE Guarded'
  BY <1>11 DEF Release, EndMove, EndResize
<1>12. CASE Escape \/ AttachKeyboard
  BY <1>12 DEF Escape, AttachKeyboard
<1>13. CASE UNCHANGED vars
  BY <1>13
<1> QED
  BY <1>1, <1>2, <1>3, <1>4, <1>5, <1>6, <1>7, <1>8, <1>9, <1>10, <1>11, <1>12,
     <1>13 DEF Next, Client, User

LEMMA Inductive == Spec => [](TypeOK /\ Guarded)
<1>1. TypeOK /\ Guarded /\ [Next]_vars => (TypeOK /\ Guarded)'
  BY TypeStep, GuardedStep
<1>2. Init => TypeOK /\ Guarded
  BY InitType, InitGuarded
<1> QED
  BY <1>1, <1>2, PTL DEF Spec

\* A motion never follows a null pointer for a move or a resize.
THEOREM GrabHasViewAlways == Spec => []GrabHasView
<1>1. Guarded => GrabHasView
  BY DEF Guarded
<1> QED
  BY Inductive, <1>1, PTL

\* A resize is over as soon as no button is held, for any number of windows and
\* any order of presses, releases and client events.
THEOREM ResizeHeldAlways == Spec => []ResizeWhileHeld
<1>1. Guarded => ResizeWhileHeld
  BY DEF Guarded, ButtonRemembered, ResizePressed, ResizeWhileHeld
<1> QED
  BY Inductive, <1>1, PTL

\* A resize keeps the pointer from every client until it ends.
THEOREM ResizeOwnsPointerAlways == Spec => []ResizeOwnsPointer
<1>1. Guarded => ResizeOwnsPointer
  BY DEF Guarded
<1> QED
  BY Inductive, <1>1, PTL

\* No window but the one being resized waits for an acknowledgement.
THEOREM OnlyResizedAwaitsAlways == Spec => []OnlyResizedAwaits
<1>1. Guarded => OnlyResizedAwaits
  BY DEF Guarded
<1> QED
  BY Inductive, <1>1, PTL

\* A client cannot replace the resize cursor.
THEOREM ResizeCursorAlways == Spec => []ResizeCursorKept
<1>1. Guarded => ResizeCursorKept
  BY DEF Guarded
<1> QED
  BY Inductive, <1>1, PTL

-----------------------------------------------------------------------------
(* The z-order                                                             *)

\* Raising a tree to the top, or adding one there, keeps the order strict
\* and total.
LEMMA RaiseKeepsOrder ==
  ASSUME TypeOK, OrderIsTotal, NEW n, InScene' = InScene \cup {n}, RaiseToTop(n),
         \A m \in InScene' \ {n} : m \in InScene
  PROVE  OrderIsTotal'
<1> DEFINE Old == {p \in over : p[2] # n}
<1> DEFINE New == {<<n, m>> : m \in InScene \ {n}}
<1>1. over' = Old \cup New
  BY DEF RaiseToTop
<1>2. \A a, b : <<a, b>> \in New <=> a = n /\ b \in InScene \ {n}
  OBVIOUS
<1>3. \A a, b : <<a, b>> \in Old <=> <<a, b>> \in over /\ b # n
  OBVIOUS
<1>4. \A a, b : <<a, b>> \in over' <=>
         (<<a, b>> \in over /\ b # n) \/ (a = n /\ b \in InScene \ {n})
  BY <1>1, <1>2, <1>3
<1> HIDE DEF Old, New
<1>5. \A a, b : <<a, b>> \in over => a \in InScene /\ b \in InScene
  <2>1. over \subseteq InScene \X InScene
    BY DEF TypeOK
  <2> QED
    BY <2>1
<1>6. ASSUME NEW a \in InScene', NEW b \in InScene', a # b
      PROVE  (<<a, b>> \in over') # (<<b, a>> \in over')
  BY <1>4, <1>5, <1>6 DEF OrderIsTotal
<1>7. ASSUME NEW a \in InScene' PROVE <<a, a>> \notin over'
  BY <1>4, <1>5 DEF OrderIsTotal
<1>8. ASSUME NEW a \in InScene', NEW b \in InScene', NEW c \in InScene',
             <<a, b>> \in over', <<b, c>> \in over'
      PROVE  <<a, c>> \in over'
  BY <1>4, <1>5, <1>8 DEF OrderIsTotal
<1> QED
  BY <1>6, <1>7, <1>8 DEF OrderIsTotal

\* The trees of the scene stay totally ordered by height.
THEOREM OrderTotalAlways == Spec => []OrderIsTotal
<1>1. Init => OrderIsTotal
  BY DEF Init, OrderIsTotal, InScene
<1>2. ASSUME TypeOK, OrderIsTotal, [Next]_vars PROVE OrderIsTotal'
  <2> USE DEF vars, scene
  <2>1. CASE InScene' = InScene /\ over' = over
    BY <1>2, <2>1 DEF OrderIsTotal
  <2>2. CASE UNCHANGED <<lifetime, layers, over>>
    BY <2>1, <2>2 DEF InScene
  <2>3. ASSUME NEW v \in View, server_new_xdg_toplevel(v) PROVE OrderIsTotal'
    <3>1. InScene' = InScene \cup {v}
      BY <2>3, <1>2 DEF server_new_xdg_toplevel, InScene, TypeOK
    <3> QED
      BY <1>2, <2>3, <3>1, RaiseKeepsOrder DEF server_new_xdg_toplevel
  <2>4. ASSUME NEW n \in Layer, layer_shell_create(n) PROVE OrderIsTotal'
    <3>1. InScene' = InScene \cup {n}
      BY <2>4 DEF layer_shell_create, InScene
    <3> QED
      BY <1>2, <2>4, <3>1, RaiseKeepsOrder DEF layer_shell_create
  <2>5. ASSUME NEW b \in Button, NEW n \in Hittable \cup {NULL}, Press(b, n)
        PROVE  OrderIsTotal'
    <3>1. CASE n = NULL
      BY <2>5, <3>1, <2>2 DEF Press
    <3>2. CASE n # NULL
      <4>1. n \in InScene /\ InScene' = InScene
        BY <2>5, <3>2 DEF Press, Hittable, Mapped, InScene
      <4> QED
        BY <1>2, <2>5, <3>2, <4>1, RaiseKeepsOrder DEF Press
    <3> QED
      BY <3>1, <3>2
  <2>6. ASSUME NEW v \in View, displaypush(v) \/ displaypull(v) \/ toplevel_destroy(v)
        PROVE  OrderIsTotal'
    <3>1. InScene' = InScene /\ over' = over
      BY <1>2, <2>6 DEF displaypush, displaypull, toplevel_destroy, Live, InScene, TypeOK
    <3> QED
      BY <2>1, <3>1
  <2>7. ASSUME NEW v \in View,
               checkcomit(v) \/ request_surface_move(v) \/ get_cliant_cursor_image(v)
        PROVE  OrderIsTotal'
    BY <2>7, <2>2 DEF checkcomit, request_surface_move, get_cliant_cursor_image
  <2>8. CASE newinput_mouce \/ Escape \/ AttachKeyboard
    BY <2>8, <2>2 DEF newinput_mouce, MotionOverDesktop, MotionOverLayer,
       MotionOverEdge, EnterResizeBand, MotionOverTitle, MotionInside, MotionResizing, MotionFault,
       Escape, AttachKeyboard
  <2>9. ASSUME NEW b \in Button, Release(b) PROVE OrderIsTotal'
    BY <2>9, <2>2 DEF Release, EndMove, EndResize
  <2>10. CASE UNCHANGED vars
    BY <2>10, <2>2
  <2> QED
    BY <1>2, <2>3, <2>4, <2>5, <2>6, <2>7, <2>8, <2>9, <2>10, NodeAssumption
       DEF Next, Client, User
<1>3. TypeOK /\ OrderIsTotal /\ [Next]_vars => OrderIsTotal'
  BY <1>2
<1> QED
  BY <1>1, <1>3, TypeCorrect, PTL DEF Spec
=============================================================================

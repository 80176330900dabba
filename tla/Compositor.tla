------------------------------ MODULE Compositor ------------------------------
(***************************************************************************)
(* The window side of mywm: the life of a toplevel window, the z-order of  *)
(* the scene, the two grabs the pointer can hold (moving a window on a     *)
(* client's request, resizing it by an edge), the focus of the seat and    *)
(* the cursor image.  Every handler runs to its end in the one event loop  *)
(* of the compositor, so it is one action; what interleaves is the order   *)
(* in which pointer, clients and layer surfaces raise events.              *)
(*                                                                         *)
(* Coordinates are abstracted to what is under the cursor when a handler   *)
(* asks the scene: nothing, a layer surface, or a window and the zone of   *)
(* the window the cursor is in.  The arithmetic of a resize is module      *)
(* ResizeDrag.                                                             *)
(***************************************************************************)

CONSTANTS
  View,         (* windows: the view structures of all toplevels          *)
  Bar,          (* the TOP layer surface (mybar)                          *)
  Wallpaper,    (* the BACKGROUND layer surface (swaybg)                  *)
  Started,      (* bound: the layer surfaces that are ever created        *)
  NULL          (* the null pointer                                       *)

Layer  == {Bar, Wallpaper}
Button == {"left", "right"}
Compos == "compositor"          \* the owner of an image the compositor drew

ASSUME NodeAssumption ==
  /\ Bar # Wallpaper /\ Started \subseteq Layer
  /\ View \cap {Bar, Wallpaper, NULL, Compos} = {}
  /\ NULL # Compos

VARIABLES
  server,                       (* running, terminated, or undefined after
                                   a freed view was used                  *)
  lifetime,                     (* of each view                           *)
  layers,                       (* layer surfaces with a scene tree       *)
  over,                         (* z-order: <<m, n>> when m is drawn above n *)
  held,                         (* the buttons the user holds down        *)
  botton_state,                 (* the last button event                  *)
  surface_move_state,           (* a client asked to be moved             *)
  moving_view,
  surface_move_range,           (* the cursor is in the title band        *)
  surface_move,                 (* the compositor's own title drag        *)
  now_surface_request_resize,
  resizing_view,
  mouce_inside_resize_pos,
  pending_serial,               (* of each view: a set_size awaits its ack *)
  pointer_focus, keyboard_focus,
  keyboard,                     (* the seat has a keyboard                *)
  cursor_image                  (* who drew the cursor image              *)

scene == <<lifetime, layers, over>>
move  == <<surface_move_state, moving_view, surface_move>>
grip  == <<now_surface_request_resize, resizing_view, pending_serial>>
seat  == <<pointer_focus, keyboard_focus, keyboard>>
btn   == <<held, botton_state>>
zone  == <<surface_move_range, mouce_inside_resize_pos>>
vars  == <<server, scene, move, grip, seat, btn, zone, cursor_image>>

Live(v)   == v \in View /\ lifetime[v] \in {"unmapped", "mapped"}
Mapped    == {v \in View : lifetime[v] = "mapped"}
\* Scene trees: the one made for a window is never destroyed again.
InScene   == {v \in View : lifetime[v] # "none"} \cup layers
\* What can be under the cursor: swaybg accepts no input.
Hittable  == Mapped \cup (layers \ {Wallpaper})

RaiseToTop(n) ==
  over' = {p \in over : p[2] # n} \cup {<<n, m>> : m \in InScene \ {n}}

Init ==
  /\ server = "running"
  /\ lifetime = [v \in View |-> "none"]
  /\ layers = {}
  /\ over = {}
  /\ held = {}
  /\ botton_state = [button |-> "none", state |-> "released"]
  /\ surface_move_state = FALSE
  /\ moving_view = NULL
  /\ surface_move_range = FALSE
  /\ surface_move = FALSE
  /\ now_surface_request_resize = FALSE
  /\ resizing_view = NULL
  /\ mouce_inside_resize_pos = FALSE
  /\ pending_serial = [v \in View |-> FALSE]
  /\ pointer_focus = NULL
  /\ keyboard_focus = NULL
  /\ keyboard = FALSE
  /\ cursor_image = Compos

-----------------------------------------------------------------------------
(* Windows and layer surfaces                                              *)

server_new_xdg_toplevel(v) ==
  /\ lifetime[v] = "none"
  /\ lifetime' = [lifetime EXCEPT ![v] = "unmapped"]
  /\ RaiseToTop(v)                    \* a new scene tree is the topmost
  /\ UNCHANGED <<server, layers, move, grip, seat, btn, zone, cursor_image>>

displaypush(v) ==
  /\ lifetime[v] = "unmapped"
  /\ lifetime' = [lifetime EXCEPT ![v] = "mapped"]
  /\ keyboard_focus' = IF keyboard THEN v ELSE keyboard_focus
  /\ UNCHANGED <<server, layers, over, move, grip, pointer_focus, keyboard,
                 btn, zone, cursor_image>>

\* The handler is empty: only wlroots stops drawing the surface.
displaypull(v) ==
  /\ lifetime[v] = "mapped"
  /\ lifetime' = [lifetime EXCEPT ![v] = "unmapped"]
  /\ UNCHANGED <<server, layers, over, move, grip, seat, btn, zone, cursor_image>>

\* A commit that acknowledges the awaited serial ends the wait.
checkcomit(v) ==
  /\ Live(v)
  /\ pending_serial[v]
  /\ pending_serial' = [pending_serial EXCEPT ![v] = FALSE]
  /\ UNCHANGED <<server, scene, move, now_surface_request_resize, resizing_view,
                 seat, btn, zone, cursor_image>>

\* The request travels over the client's socket: it may arrive at any time,
\* also after the button that caused it was released.
request_surface_move(v) ==
  /\ v \in Mapped
  /\ surface_move_state' = TRUE
  /\ moving_view' = v
  /\ UNCHANGED <<server, scene, surface_move, grip, seat, btn, zone, cursor_image>>

\* Frees the view.  moving_view and resizing_view are left as they are;
\* wlroots drops the focus and the cursor image of a destroyed surface.
toplevel_destroy(v) ==
  /\ Live(v)
  /\ lifetime' = [lifetime EXCEPT ![v] = "destroyed"]
  /\ pending_serial' = [pending_serial EXCEPT ![v] = FALSE]
  /\ pointer_focus' = IF pointer_focus = v THEN NULL ELSE pointer_focus
  /\ keyboard_focus' = IF keyboard_focus = v THEN NULL ELSE keyboard_focus
  /\ cursor_image' = IF cursor_image = v THEN Compos ELSE cursor_image
  /\ UNCHANGED <<server, layers, over, move, now_surface_request_resize,
                 resizing_view, keyboard, btn, zone>>

layer_shell_create(n) ==
  /\ n \notin layers
  /\ layers' = layers \cup {n}
  /\ RaiseToTop(n)
  /\ UNCHANGED <<server, lifetime, move, grip, seat, btn, zone, cursor_image>>

-----------------------------------------------------------------------------
(* The pointer                                                             *)

\* The pointers a motion follows are to live views; `on' tells whether some
\* node is under the cursor.
MotionSafe(on) ==
  /\ (~now_surface_request_resize /\ surface_move_state /\ on) => Live(moving_view)
  /\ now_surface_request_resize => Live(resizing_view)
  /\ (surface_move /\ moving_view # NULL) => Live(moving_view)

\* The start of a title drag sits in the branch of a running resize.
TitleDrag(resizing, range) ==
  surface_move' = IF resizing /\ range /\ botton_state.button = "left"
                    THEN botton_state.state = "pressed"
                    ELSE surface_move

\* Makes v the focus of pointer and keyboard unless the pointer is there.
Focus(v) ==
  /\ pointer_focus' = v
  /\ keyboard_focus' = IF pointer_focus # v /\ keyboard THEN v ELSE keyboard_focus

MotionOverDesktop ==
  /\ ~now_surface_request_resize
  /\ MotionSafe(FALSE)
  /\ surface_move_range' = FALSE
  /\ pointer_focus' = NULL
  /\ cursor_image' = Compos
  /\ UNCHANGED <<server, scene, move, grip, keyboard_focus, keyboard, btn,
                 mouce_inside_resize_pos>>

MotionOverLayer ==
  /\ ~now_surface_request_resize
  /\ Hittable \cap Layer # {}
  /\ MotionSafe(TRUE)
  /\ surface_move_range' = FALSE
  /\ UNCHANGED <<server, scene, move, grip, seat, btn, mouce_inside_resize_pos,
                 cursor_image>>

\* Mutants: the client keeps the pointer, or its cursor image.
EnterResizeBand_Focused ==
  /\ mouce_inside_resize_pos' = TRUE
  /\ cursor_image' = Compos
  /\ UNCHANGED pointer_focus

EnterResizeBand_OldImage ==
  /\ mouce_inside_resize_pos' = TRUE
  /\ pointer_focus' = NULL
  /\ UNCHANGED cursor_image

\* Within 20 px of an edge: the client loses the pointer and the cursor.
EnterResizeBand ==
  /\ mouce_inside_resize_pos' = TRUE
  /\ pointer_focus' = NULL
  /\ cursor_image' = Compos

\* There a held button starts a resize, whose first size is sent by the same
\* handler.
MotionOverEdge(v) ==
  /\ ~now_surface_request_resize
  /\ v \in Mapped
  /\ MotionSafe(TRUE)
  /\ surface_move_range' = FALSE
  /\ EnterResizeBand
  /\ IF botton_state.state = "pressed" /\ ~surface_move
       THEN /\ now_surface_request_resize' = TRUE
            /\ resizing_view' = v
            /\ pending_serial' = [pending_serial EXCEPT ![v] = TRUE]
       ELSE UNCHANGED grip
  /\ TitleDrag(now_surface_request_resize', surface_move_range')
  /\ UNCHANGED <<server, scene, surface_move_state, moving_view, keyboard_focus,
                 keyboard, btn>>

\* Between 20 and 25 px from the top edge: the title band.
MotionOverTitle(v) ==
  /\ ~now_surface_request_resize
  /\ v \in Mapped
  /\ MotionSafe(TRUE)
  /\ surface_move_range' = TRUE
  /\ mouce_inside_resize_pos' = FALSE
  /\ cursor_image' = Compos
  /\ Focus(v)
  /\ UNCHANGED <<server, scene, move, grip, keyboard, btn>>

MotionInside(v) ==
  /\ ~now_surface_request_resize
  /\ v \in Mapped
  /\ MotionSafe(TRUE)
  /\ surface_move_range' = FALSE
  /\ mouce_inside_resize_pos' = FALSE
  /\ Focus(v)
  /\ UNCHANGED <<server, scene, move, grip, keyboard, btn, cursor_image>>

\* A running resize: the scene is not asked, a new size is sent.
MotionResizing ==
  /\ now_surface_request_resize
  /\ MotionSafe(FALSE)
  /\ surface_move_range' = FALSE
  /\ pending_serial' = [pending_serial EXCEPT ![resizing_view] = TRUE]
  /\ TitleDrag(TRUE, surface_move_range')
  /\ cursor_image' = Compos
  /\ UNCHANGED <<server, scene, surface_move_state, moving_view,
                 now_surface_request_resize, resizing_view, seat, btn,
                 mouce_inside_resize_pos>>

\* A motion that follows a pointer to a freed view: no state is defined after.
MotionFault ==
  /\ \E on \in BOOLEAN : (on => Hittable # {}) /\ ~MotionSafe(on)
  /\ server' = "undefined"
  /\ UNCHANGED <<scene, move, grip, seat, btn, zone, cursor_image>>

newinput_mouce ==
  \/ MotionOverDesktop
  \/ MotionOverLayer
  \/ \E v \in View : MotionOverEdge(v) \/ MotionOverTitle(v) \/ MotionInside(v)
  \/ MotionResizing
  \/ MotionFault

\* newinput_moucebotton, pressed: n is the topmost node under the cursor.
Press(b, n) ==
  /\ b \notin held
  /\ held' = held \cup {b}
  /\ botton_state' = [button |-> b, state |-> "pressed"]
  /\ IF n = NULL THEN UNCHANGED over ELSE RaiseToTop(n)
  /\ UNCHANGED <<server, lifetime, layers, move, grip, seat, zone, cursor_image>>

\* Mutant: the flag of the move outlives its view.
EndMove_Flagged ==
  /\ surface_move' = FALSE
  /\ surface_move_range' = FALSE
  /\ moving_view' = NULL
  /\ UNCHANGED surface_move_state

EndMove ==
  /\ surface_move' = FALSE
  /\ surface_move_range' = FALSE
  /\ surface_move_state' = FALSE
  /\ moving_view' = NULL

\* Mutants: a move that ends hides the resize that ends with it; the window
\* goes on waiting for its serial.
EndResize_UnlessMoving ==
  IF ~now_surface_request_resize \/ surface_move_state
    THEN UNCHANGED <<server, grip>>
    ELSE /\ Live(resizing_view)
         /\ now_surface_request_resize' = FALSE
         /\ pending_serial' = [pending_serial EXCEPT ![resizing_view] = FALSE]
         /\ UNCHANGED <<server, resizing_view>>

EndResize_Awaiting ==
  IF ~now_surface_request_resize
    THEN UNCHANGED <<server, grip>>
    ELSE /\ Live(resizing_view)
         /\ now_surface_request_resize' = FALSE
         /\ UNCHANGED <<server, resizing_view, pending_serial>>

EndResize ==
  IF ~now_surface_request_resize
    THEN UNCHANGED <<server, grip>>
    ELSE IF Live(resizing_view)
           THEN /\ now_surface_request_resize' = FALSE
                /\ pending_serial' = [pending_serial EXCEPT ![resizing_view] = FALSE]
                /\ UNCHANGED <<server, resizing_view>>
           ELSE /\ server' = "undefined"
                /\ UNCHANGED grip

\* newinput_moucebotton, released: any release ends every grab.
Release(b) ==
  /\ b \in held
  /\ held' = held \ {b}
  /\ botton_state' = [button |-> b, state |-> "released"]
  /\ EndMove
  /\ EndResize
  /\ UNCHANGED <<scene, seat, mouce_inside_resize_pos, cursor_image>>

get_cliant_cursor_image(c) ==
  /\ pointer_focus = c
  /\ ~mouce_inside_resize_pos
  /\ cursor_image' = c
  /\ UNCHANGED <<server, scene, move, grip, seat, btn, zone>>

-----------------------------------------------------------------------------
(* The keyboard                                                            *)

\* newinput_device for a keyboard: from now on the seat has one.
AttachKeyboard ==
  /\ ~keyboard
  /\ keyboard' = TRUE
  /\ UNCHANGED <<server, scene, move, grip, pointer_focus, keyboard_focus, btn,
                 zone, cursor_image>>

\* h_key: Escape ends the event loop.
Escape ==
  /\ keyboard
  /\ server' = "terminated"
  /\ UNCHANGED <<scene, move, grip, seat, btn, zone, cursor_image>>

-----------------------------------------------------------------------------
Client ==
  \E v \in View :
    \/ server_new_xdg_toplevel(v)
    \/ displaypush(v)
    \/ displaypull(v)
    \/ checkcomit(v)
    \/ request_surface_move(v)
    \/ toplevel_destroy(v)
    \/ get_cliant_cursor_image(v)

User ==
  \/ newinput_mouce
  \/ \E b \in Button : (\E n \in Hittable \cup {NULL} : Press(b, n)) \/ Release(b)
  \/ Escape

Next ==
  /\ server = "running"
  /\ Client \/ User \/ AttachKeyboard \/ \E n \in Started : layer_shell_create(n)

Spec == Init /\ [][Next]_vars

\* The user does not hold a button for ever.
FairSpec == Spec /\ \A b \in Button : WF_vars(server = "running" /\ Release(b))

-----------------------------------------------------------------------------
(* Properties                                                              *)

TypeOK ==
  /\ server \in {"running", "terminated", "undefined"}
  /\ lifetime \in [View -> {"none", "unmapped", "mapped", "destroyed"}]
  /\ layers \subseteq Layer
  /\ over \subseteq InScene \X InScene
  /\ held \subseteq Button
  /\ botton_state \in [button : Button \cup {"none"}, state : {"pressed", "released"}]
  /\ surface_move_state \in BOOLEAN
  /\ moving_view \in View \cup {NULL}
  /\ surface_move_range \in BOOLEAN
  /\ surface_move \in BOOLEAN
  /\ now_surface_request_resize \in BOOLEAN
  /\ resizing_view \in View \cup {NULL}
  /\ mouce_inside_resize_pos \in BOOLEAN
  /\ pending_serial \in [View -> BOOLEAN]
  /\ pointer_focus \in View \cup {NULL}
  /\ keyboard_focus \in View \cup {NULL}
  /\ keyboard \in BOOLEAN
  /\ cursor_image \in View \cup {Compos}

\* A grab always has the view its handler follows without a test: the pointer
\* of a move (mouce_func.c:38) and of a resize (mouce_func.c:142) is set as
\* long as the flag that lets a motion use it is.
GrabHasView ==
  /\ surface_move_state => moving_view # NULL
  /\ now_surface_request_resize => resizing_view # NULL

\* A resize never outlives the user's hold on the mouse, whatever buttons are
\* pressed and released in between (mouce_func.c:103 and 344-366).
ResizeWhileHeld ==
  (server = "running" /\ now_surface_request_resize) => held # {}

\* During a resize no client receives pointer events (mouce_func.c:97-99): no
\* event handler gives the focus back before the button is released.
ResizeOwnsPointer == now_surface_request_resize => pointer_focus = NULL

\* Only the window being resized waits for a serial (mouce_func.c:255 and 364,
\* view.c:73), so a commit of another window never moves a scene node.
OnlyResizedAwaits ==
  \A v \in View :
    pending_serial[v] => now_surface_request_resize /\ resizing_view = v

\* While the flag that refuses cursor requests is set the cursor shows the
\* compositor's image and no client has the pointer (mouce_func.c:97-98 and
\* 386-394): a late set_cursor cannot replace the resize arrow.
ResizeCursorKept ==
  mouce_inside_resize_pos => cursor_image = Compos /\ pointer_focus = NULL

\* The scene's order is total and strict however trees are added and raised
\* (view.c:8, layer_shell.c:103 and 129, mouce_func.c:339).
OrderIsTotal ==
  /\ \A m, n \in InScene : m # n => (<<m, n>> \in over) # (<<n, m>> \in over)
  /\ \A n \in InScene : <<n, n>> \notin over
  /\ \A l, m, n \in InScene :
       <<l, m>> \in over /\ <<m, n>> \in over => <<l, n>> \in over

\* Every resize comes to an end, given that the user lets go of the mouse
\* (mouce_func.c:358-365).
ResizeEnds == now_surface_request_resize ~> (~now_surface_request_resize \/ server # "running")

-----------------------------------------------------------------------------
(* What comments promise and the code does not keep                        *)

\* mouce_func.c:102: "while a window is being moved (surface_move) the move
\* has priority and no resize starts".
MoveExcludesResize == ~(surface_move_state /\ now_surface_request_resize)

\* mywm_core.h:215: resizing_view holds the window being resized.
ResizingViewIsLive ==
  (server = "running" /\ now_surface_request_resize) => Live(resizing_view)
=============================================================================

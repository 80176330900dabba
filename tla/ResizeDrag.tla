------------------------------ MODULE ResizeDrag ------------------------------
(***************************************************************************)
(* The geometry of an interactive resize in mywm and its conversation with *)
(* the client.  Each motion computes a size from the cursor, moves the     *)
(* scene node at once and asks the client for the size; the client answers *)
(* when it likes, some requests later, with a commit that acknowledges a   *)
(* serial.  One window; the two axes are treated alike by the code, "low"  *)
(* is the left or top edge and "high" the right or bottom one.             *)
(*                                                                         *)
(* The box of the view is not the compositor's own: surface_box points     *)
(* into the state wlroots overwrites with the client's at every commit.    *)
(***************************************************************************)
EXTENDS Integers, Sequences

CONSTANTS
  Reach,        (* [Axis -> SUBSET Int]: coordinates the cursor can take     *)
  Monitor,      (* [Axis -> Nat]: the size of the output                     *)
  DefaultMin,   (* [Axis -> Nat]: 300 x 100 in the code                      *)
  ClientMin, ClientMax,  (* [Axis -> Nat]: the client's limits, 0 for unset  *)
  Band,         (* width of the resize zone, 20 in the code                  *)
  TitleEnd,     (* end of the title band, 25 in the code                     *)
  Cell,         (* the client draws multiples of Cell: 1 for any size        *)
  StartNode, StartSize,  (* [Axis -> Nat]: before the first resize           *)
  MaxSerial     (* bound: configure events in a behaviour                    *)

Axis == {"x", "y"}

ASSUME SizeAssumption ==
  /\ Band \in Nat /\ TitleEnd \in Nat /\ MaxSerial \in Nat /\ Cell \in Nat \ {0}
  /\ Reach \in [Axis -> SUBSET Int]
  /\ {Monitor, DefaultMin, ClientMin, ClientMax, StartNode, StartSize}
       \subseteq [Axis -> Nat]

VARIABLES
  cursor,            (* the logical cursor                                   *)
  node,              (* position of scene_tree                               *)
  box,               (* *surface_box, that is current.geometry               *)
  now_surface_request_resize,
  resize_edges,      (* [Axis -> "none", "low", "high"]                      *)
  diff,              (* grabbed edge minus cursor when the drag began        *)
  anchor,            (* the high edge when the drag began                    *)
  surface_size_value,
  pending_serial,    (* serial of the last set_size, 0 for none              *)
  (* wlroots and the client *)
  serial,            (* last serial handed out                               *)
  asked,             (* the size of the last set_size                        *)
  unsent,            (* a configure is scheduled for the end of the dispatch *)
  configures,        (* sent and not acknowledged: <<[serial, size]>>        *)
  configure_serial,  (* last acknowledged serial                             *)
  drawn              (* the size of the client's picture                     *)

view == <<node, box, now_surface_request_resize, resize_edges, diff, anchor,
          surface_size_value, pending_serial>>
client == <<serial, asked, unsent, configures, configure_serial, drawn>>
vars == <<cursor, view, client>>

Size  == [Axis -> Int]
CursorPos == {[a \in Axis |-> IF a = "x" THEN p ELSE q] : p \in Reach["x"], q \in Reach["y"]}
Edges == [Axis -> {"none", "low", "high"}]

Clamp(n, lim) == IF n < lim.min THEN lim.min ELSE IF n > lim.max THEN lim.max ELSE n

\* What the client draws when it is asked for n.
Fit(n) == n - (n % Cell)

\* put_surface_size_value
Limits == [a \in Axis |->
  [min |-> IF ClientMin[a] <= 0 THEN DefaultMin[a] ELSE ClientMin[a],
   max |-> IF ClientMax[a] <= 0 THEN Monitor[a] ELSE ClientMax[a]]]

Init ==
  /\ cursor \in CursorPos
  /\ node = StartNode
  /\ box = StartSize
  /\ now_surface_request_resize = FALSE
  /\ resize_edges = [a \in Axis |-> "none"]
  /\ diff = [a \in Axis |-> 0]
  /\ anchor = [a \in Axis |-> 0]
  /\ surface_size_value = [a \in Axis |-> [min |-> 0, max |-> 0]]
  /\ pending_serial = 0
  /\ serial = 0
  /\ asked = StartSize
  /\ unsent = FALSE
  /\ configures = <<>>
  /\ configure_serial = 0
  /\ drawn = StartSize

-----------------------------------------------------------------------------
(* The pointer                                                             *)

\* Hit test on the client's picture; the zones are measured on the box.
Over(c) == \A a \in Axis : c[a] - node[a] \in 0 .. drawn[a] - 1

EdgesAt(c) ==
  LET at == [a \in Axis |-> c[a] - node[a]]
  IN  IF Band < at["y"] /\ at["y"] < TitleEnd
        THEN [a \in Axis |-> "none"]
        ELSE [a \in Axis |-> IF at[a] < Band THEN "low"
                             ELSE IF at[a] > box[a] - Band THEN "high" ELSE "none"]

\* Mutant: the high edge is taken to be the last pixel of the window.
Wanted_Inclusive(edge, hold, far, near, now, lim) ==
  IF edge = "low" THEN Clamp(far - hold, lim)
  ELSE IF edge = "high" THEN Clamp(hold - near + 1, lim) ELSE now

\* The size along one axis when the grabbed edge is dragged to `hold': the far
\* edge of a low edge is the anchor, that of a high edge is the node itself.
Wanted(edge, hold, far, near, now, lim) ==
  IF edge = "low" THEN Clamp(far - hold, lim)
  ELSE IF edge = "high" THEN Clamp(hold - near, lim) ELSE now

\* Primed: the grips of the drag that goes on, or that this same motion began.
WantedSize ==
  [a \in Axis |-> Wanted(resize_edges'[a], cursor'[a] + diff'[a], anchor'[a],
                         node[a], box[a], surface_size_value'[a])]

\* wlr_xdg_toplevel_set_size: one configure per dispatch, so a second call
\* before it is sent replaces the size and keeps the serial.
set_size(size) ==
  /\ unsent \/ serial < MaxSerial
  /\ asked' = size
  /\ serial' = IF unsent THEN serial ELSE serial + 1
  /\ unsent' = TRUE
  /\ UNCHANGED <<configures, configure_serial, drawn>>

\* wlr_xdg_toplevel_set_resizing schedules a configure too, with the size as it is.
set_resizing == set_size(asked)

\* The branch of newinput_mouce that runs while a resize is on.
ResizeStep ==
  /\ box' = WantedSize
  /\ node' = [a \in Axis |-> IF resize_edges'[a] = "low"
                               THEN anchor'[a] - box'[a] ELSE node[a]]
  /\ set_size(WantedSize)
  /\ pending_serial' = serial'

\* surface_request_resize, and the first step of the drag: one motion with a
\* button held, into a resize zone.
Grab(c) ==
  /\ ~now_surface_request_resize
  /\ Over(c)
  /\ EdgesAt(c) # [a \in Axis |-> "none"]
  /\ cursor' = c
  /\ now_surface_request_resize' = TRUE
  /\ resize_edges' = EdgesAt(c)
  /\ surface_size_value' = Limits
  /\ diff' = [a \in Axis |->
       IF resize_edges'[a] = "low" THEN node[a] - c[a]
       ELSE IF resize_edges'[a] = "high" THEN node[a] + box[a] - c[a] ELSE diff[a]]
  /\ anchor' = [a \in Axis |-> node[a] + box[a]]
  /\ ResizeStep

Drag(c) ==
  /\ now_surface_request_resize
  /\ cursor' = c
  /\ UNCHANGED <<now_surface_request_resize, resize_edges, surface_size_value,
                 diff, anchor>>
  /\ ResizeStep

Release ==
  /\ now_surface_request_resize
  /\ now_surface_request_resize' = FALSE
  /\ set_resizing
  /\ pending_serial' = 0
  /\ UNCHANGED <<cursor, node, box, resize_edges, diff, anchor, surface_size_value>>

-----------------------------------------------------------------------------
(* wlroots and the client                                                  *)

SendConfigure ==
  /\ unsent
  /\ unsent' = FALSE
  /\ configures' = Append(configures, [serial |-> serial, size |-> asked])
  /\ UNCHANGED <<cursor, view, serial, asked, configure_serial, drawn>>

\* Mutant: the answer to the request itself does not count.
Reached_Later(s) == pending_serial # 0 /\ s > pending_serial

\* The size that is awaited, or a newer one, has arrived.
Reached(s) == pending_serial # 0 /\ s >= pending_serial

\* Mutant: the node is placed for the size that was asked for.
Settled_Asked(size) ==
  [a \in Axis |-> IF now_surface_request_resize /\ resize_edges[a] = "low"
                    THEN anchor[a] - asked[a] ELSE node[a]]

\* Where the node belongs once the client has drawn `size'.
Settled(size) ==
  [a \in Axis |-> IF now_surface_request_resize /\ resize_edges[a] = "low"
                    THEN anchor[a] - size[a] ELSE node[a]]

\* A commit whose newest acknowledged serial is s and whose geometry is
\* `size': wlroots overwrites the box, then checkcomit runs.
checkcomit(s, size) ==
  /\ configure_serial' = s
  /\ drawn' = size
  /\ box' = size
  /\ IF Reached(s)
       THEN pending_serial' = 0 /\ node' = Settled(size)
       ELSE UNCHANGED <<pending_serial, node>>
  /\ UNCHANGED <<cursor, now_surface_request_resize, resize_edges, diff, anchor,
                 surface_size_value, serial, asked, unsent>>

\* The client draws the i-th waiting configure and drops the older ones.
Answer(i) ==
  /\ i \in DOMAIN configures
  /\ checkcomit(configures[i].serial,
                [a \in Axis |-> Fit(configures[i].size[a])])
  /\ configures' = SubSeq(configures, i + 1, Len(configures))

\* An ordinary frame of the client, in the size it has.
Frame ==
  /\ checkcomit(configure_serial, drawn)
  /\ UNCHANGED configures

Next ==
  \/ \E c \in CursorPos : Grab(c) \/ Drag(c)
  \/ Release
  \/ SendConfigure
  \/ \E i \in 1 .. Len(configures) : Answer(i)
  \/ Frame

Spec == Init /\ [][Next]_vars

-----------------------------------------------------------------------------
(* Properties                                                              *)

TypeOK ==
  /\ cursor \in Size /\ node \in Size /\ box \in Size
  /\ now_surface_request_resize \in BOOLEAN
  /\ resize_edges \in Edges
  /\ diff \in Size /\ anchor \in Size
  /\ surface_size_value \in [Axis -> [min : Nat, max : Nat]]
  /\ serial \in 0 .. MaxSerial
  /\ pending_serial \in 0 .. serial
  /\ configure_serial \in 0 .. serial
  /\ asked \in Size /\ drawn \in Size
  /\ unsent \in BOOLEAN
  /\ configures \in Seq([serial : 1 .. MaxSerial, size : Size])

\* The client has answered everything it was asked.
CaughtUp == ~unsent /\ configures = <<>>

\* Once the client has caught up during a drag, the edge opposite to the one
\* that is dragged is where it was when the drag began, whatever the sizes the
\* client chose and however its answers were delayed (view.c:50-74,
\* mouce_func.c:234-252).
FarEdgeSettles ==
  now_surface_request_resize /\ CaughtUp =>
    \A a \in Axis : resize_edges[a] = "low" => node[a] + drawn[a] = anchor[a]

\* Once the client has caught up, the dragged edge trails the cursor by less
\* than a cell and never passes it, measured from where the edge was grabbed,
\* or the window is at a limit (view.c:160-162, mouce_func.c:160-258): the box
\* that an old answer overwrites does not leak into the size of a dragged axis.
EdgeFollowsCursor ==
  now_surface_request_resize /\ CaughtUp =>
    \A a \in Axis :
      LET lim  == surface_size_value[a]
          hold == cursor[a] + diff[a]
      IN  \/ resize_edges[a] = "none"
          \/ resize_edges[a] = "low"  /\ node[a] - hold \in 0 .. Cell - 1
          \/ resize_edges[a] = "high" /\ hold - (node[a] + drawn[a]) \in 0 .. Cell - 1
          \/ drawn[a] \in {Fit(lim.min), Fit(lim.max)}

\* No answer is awaited that cannot come: an awaited serial is still on its way
\* to the client, so checkcomit will end the wait (view.c:56-73).
AwaitedIsOnItsWay ==
  pending_serial # 0 =>
    \/ unsent /\ serial = pending_serial
    \/ \E i \in DOMAIN configures : configures[i].serial >= pending_serial

-----------------------------------------------------------------------------
(* What a comment promises and the code does not keep                      *)

\* view.c:160: the far edge stays fixed, also when the button is released
\* before the client has drawn the last size.
FarEdgeRests ==
  CaughtUp => \A a \in Axis : resize_edges[a] = "low" => node[a] + drawn[a] = anchor[a]
=============================================================================

--------------------------- MODULE ResizeDragProofs ---------------------------
(***************************************************************************)
(* The handshake between a drag and the client, for every client: any      *)
(* limits, any rounding of sizes, any delay and any number of requests.    *)
(*                                                                         *)
(* FarEdgeSettles follows from two facts: a serial that is awaited is      *)
(* still on its way to the client (AwaitedIsOnItsWay), so that a client    *)
(* that has caught up leaves none awaited, and a drag that awaits none has *)
(* its node where the far edge is at the anchor (SettledNode).  The first  *)
(* needs the configures to travel in the order of their serials (InOrder), *)
(* the second that a drag awaits the last request and no earlier one       *)
(* (AwaitsLast), since the answer that ends the wait places the node.      *)
(***************************************************************************)
EXTENDS ResizeDrag, SequenceTheorems, TLAPS

Configure == [serial : 1 .. MaxSerial, size : Size]

\* The two halves of the type invariant: the view's geometry, the requests.
GeometryOK ==
  /\ cursor \in Size /\ node \in Size /\ box \in Size
  /\ now_surface_request_resize \in BOOLEAN
  /\ resize_edges \in Edges
  /\ diff \in Size /\ anchor \in Size
  /\ surface_size_value \in [Axis -> [min : Nat, max : Nat]]
  /\ asked \in Size /\ drawn \in Size

RequestsOK ==
  /\ serial \in Nat /\ serial <= MaxSerial
  /\ pending_serial \in Nat /\ pending_serial <= serial
  /\ configure_serial \in Nat /\ configure_serial <= serial
  /\ unsent \in BOOLEAN
  /\ configures \in Seq(Configure)

\* The serials on their way increase; the client has acknowledged none of them,
\* and the last one handed out is not among them while `unsent' is set.
InOrder ==
  /\ \A i, j \in 1 .. Len(configures) :
       i < j => configures[i].serial < configures[j].serial
  /\ \A i \in 1 .. Len(configures) :
       /\ configures[i].serial <= serial
       /\ unsent => configures[i].serial < serial
       /\ configure_serial < configures[i].serial
  /\ unsent => configure_serial < serial

AwaitsLast ==
  /\ now_surface_request_resize => (pending_serial = serial \/ CaughtUp)
  /\ pending_serial # 0 => now_surface_request_resize

SettledNode ==
  now_surface_request_resize /\ pending_serial = 0 =>
    \A a \in Axis : resize_edges[a] = "low" => node[a] + drawn[a] = anchor[a]

Handshake == RequestsOK /\ InOrder /\ AwaitedIsOnItsWay /\ AwaitsLast

IInv == GeometryOK /\ Handshake /\ SettledNode

LEMMA TypeParts == ASSUME GeometryOK, RequestsOK PROVE TypeOK
<1>1. /\ serial \in 0 .. MaxSerial
      /\ pending_serial \in 0 .. serial
      /\ configure_serial \in 0 .. serial
  BY SizeAssumption DEF RequestsOK
<1> QED
  BY <1>1 DEF GeometryOK, RequestsOK, Configure, TypeOK

LEMMA MaxNat == MaxSerial \in Nat
  BY SizeAssumption

LEMMA Configures ==
  ASSUME RequestsOK
  PROVE  /\ DOMAIN configures = 1 .. Len(configures)
         /\ Len(configures) \in Nat
         /\ \A i \in 1 .. Len(configures) :
              configures[i] \in Configure /\ configures[i].serial \in Nat
<1>1. configures \in Seq(Configure)
  BY DEF RequestsOK
<1>2. \A i \in 1 .. Len(configures) : configures[i] \in Configure
  BY <1>1
<1>3. \A c \in Configure : c.serial \in Nat
  BY MaxNat DEF Configure
<1> QED
  BY <1>1, <1>2, <1>3

LEMMA ClampInt == ASSUME NEW n \in Int, NEW lim \in [min : Nat, max : Nat]
                  PROVE  Clamp(n, lim) \in Int
  BY DEF Clamp

LEMMA WantedInt ==
  ASSUME NEW edge, NEW hold \in Int, NEW far \in Int, NEW near \in Int,
         NEW now \in Int, NEW lim \in [min : Nat, max : Nat]
  PROVE  Wanted(edge, hold, far, near, now, lim) \in Int
  BY ClampInt DEF Wanted

LEMMA FitInt == ASSUME NEW n \in Int PROVE Fit(n) \in Int
  BY SizeAssumption DEF Fit

LEMMA CursorInt == ASSUME NEW c \in CursorPos PROVE c \in Size
  BY SizeAssumption DEF CursorPos, Size, Axis

LEMMA LimitsType == Limits \in [Axis -> [min : Nat, max : Nat]]
  BY SizeAssumption DEF Limits, Axis

LEMMA InitIInv == Init => IInv
<1> SUFFICES ASSUME Init PROVE IInv
  OBVIOUS
<1>1. GeometryOK
  <2>1. cursor \in Size
    BY CursorInt DEF Init
  <2>2. StartNode \in Size /\ StartSize \in Size
    BY SizeAssumption DEF Size
  <2>3. /\ resize_edges \in Edges /\ diff \in Size /\ anchor \in Size
        /\ surface_size_value \in [Axis -> [min : Nat, max : Nat]]
    BY DEF Init, Edges, Size
  <2> QED
    BY <2>1, <2>2, <2>3 DEF Init, GeometryOK
<1>2. RequestsOK
  <2>1. /\ serial = 0 /\ pending_serial = 0 /\ configure_serial = 0
        /\ unsent = FALSE /\ configures = <<>>
    BY DEF Init
  <2>2. configures \in Seq(Configure)
    BY <2>1
  <2>3. /\ serial \in Nat /\ serial <= MaxSerial
        /\ pending_serial \in Nat /\ pending_serial <= serial
        /\ configure_serial \in Nat /\ configure_serial <= serial
    BY <2>1, MaxNat
  <2>4. unsent \in BOOLEAN
    BY <2>1
  <2> QED
    BY <2>2, <2>3, <2>4 DEF RequestsOK
<1>3. InOrder
  BY DEF Init, InOrder
<1>4. AwaitedIsOnItsWay /\ AwaitsLast /\ SettledNode
  BY DEF Init, AwaitedIsOnItsWay, AwaitsLast, SettledNode
<1> QED
  BY <1>1, <1>2, <1>3, <1>4 DEF IInv, Handshake

-----------------------------------------------------------------------------
(* A motion during a drag                                                  *)

LEMMA StepGeometry ==
  ASSUME GeometryOK, ResizeStep, cursor' \in Size, diff' \in Size, anchor' \in Size,
         resize_edges' \in Edges, now_surface_request_resize' \in BOOLEAN,
         surface_size_value' \in [Axis -> [min : Nat, max : Nat]]
  PROVE  GeometryOK'
<1>1. WantedSize \in Size
  BY WantedInt DEF WantedSize, GeometryOK, Size
<1>2. box' \in Size /\ asked' \in Size
  BY <1>1 DEF ResizeStep, set_size
<1>3. node' \in Size
  BY <1>2 DEF ResizeStep, Size, GeometryOK
<1>4. drawn' \in Size
  BY DEF ResizeStep, set_size, GeometryOK
<1> QED
  BY <1>2, <1>3, <1>4 DEF GeometryOK

\* A configure that is scheduled is the newest, and no other is.
LEMMA ScheduledOrder ==
  ASSUME Handshake, NEW size, set_size(size), pending_serial' \in {0, serial'}
  PROVE  RequestsOK' /\ InOrder' /\ serial' # 0
<1>1. /\ configures' = configures /\ configure_serial' = configure_serial
      /\ unsent' = TRUE
      /\ unsent \/ serial < MaxSerial
      /\ serial' = IF unsent THEN serial ELSE serial + 1
  BY DEF set_size
<1>2. /\ serial \in Nat /\ serial <= MaxSerial
      /\ configure_serial \in Nat /\ configure_serial <= serial
      /\ unsent \in BOOLEAN /\ configures \in Seq(Configure)
      /\ \A i \in 1 .. Len(configures) : configures[i].serial \in Nat
  BY Configures DEF Handshake, RequestsOK
<1>3. /\ serial' \in Nat /\ serial' <= MaxSerial
      /\ configure_serial < serial' /\ serial <= serial'
      /\ ~unsent => serial < serial'
  BY <1>1, <1>2, SizeAssumption DEF Handshake, InOrder
<1>4. RequestsOK'
  <2>1. pending_serial' \in Nat /\ pending_serial' <= serial'
    BY <1>3
  <2> QED
    BY <1>1, <1>2, <1>3, <2>1 DEF RequestsOK
<1>5. InOrder'
  <2>1. \A i \in 1 .. Len(configures) : configures[i].serial < serial'
    BY <1>1, <1>2, <1>3 DEF Handshake, InOrder
  <2> QED
    BY <1>1, <1>2, <1>3, <2>1 DEF Handshake, InOrder
<1>6. serial' # 0
  BY <1>2, <1>3
<1> QED
  BY <1>4, <1>5, <1>6

\* Whatever the size, a motion leaves its own request awaited and unsent.
LEMMA StepHandshake ==
  ASSUME Handshake, ResizeStep, now_surface_request_resize' = TRUE
  PROVE  Handshake' /\ pending_serial' # 0
<1>1. set_size(WantedSize) /\ unsent' = TRUE /\ pending_serial' = serial'
  BY DEF ResizeStep, set_size
<1>2. RequestsOK' /\ InOrder' /\ pending_serial' # 0
  BY <1>1, ScheduledOrder
<1>3. AwaitedIsOnItsWay' /\ AwaitsLast'
  BY <1>1 DEF AwaitedIsOnItsWay, AwaitsLast
<1> QED
  BY <1>2, <1>3 DEF Handshake

LEMMA GrabInv == ASSUME IInv, NEW c \in CursorPos, Grab(c) PROVE IInv'
<1>1. c \in Size
  BY CursorInt
<1>2. resize_edges' \in Edges
  BY DEF Grab, EdgesAt, Edges
<1>3. diff' \in Size /\ anchor' \in Size
  BY <1>1 DEF Grab, IInv, GeometryOK, Size
<1>4. GeometryOK'
  BY <1>1, <1>2, <1>3, LimitsType, StepGeometry DEF Grab, IInv
<1>5. Handshake' /\ pending_serial' # 0
  BY StepHandshake DEF Grab, IInv
<1> QED
  BY <1>4, <1>5 DEF IInv, SettledNode

LEMMA DragInv == ASSUME IInv, NEW c \in CursorPos, Drag(c) PROVE IInv'
<1>1. c \in Size
  BY CursorInt
<1>2. GeometryOK
  BY DEF IInv
<1>3. /\ cursor' \in Size /\ diff' \in Size /\ anchor' \in Size
      /\ resize_edges' \in Edges /\ now_surface_request_resize' \in BOOLEAN
      /\ surface_size_value' \in [Axis -> [min : Nat, max : Nat]]
  BY <1>1, <1>2 DEF Drag, GeometryOK
<1>4. GeometryOK'
  BY <1>2, <1>3, StepGeometry DEF Drag
<1>5. Handshake' /\ pending_serial' # 0
  BY StepHandshake DEF Drag, IInv
<1> QED
  BY <1>4, <1>5 DEF IInv, SettledNode

LEMMA ReleaseInv == ASSUME IInv, Release PROVE IInv'
<1>1. set_size(asked) /\ pending_serial' = 0
  BY DEF Release, set_resizing
<1>2. GeometryOK'
  BY DEF IInv, Release, set_resizing, set_size, GeometryOK
<1>3. RequestsOK' /\ InOrder'
  BY <1>1, ScheduledOrder DEF IInv
<1>4. AwaitedIsOnItsWay' /\ AwaitsLast' /\ SettledNode'
  BY DEF Release, AwaitedIsOnItsWay, AwaitsLast, SettledNode
<1> QED
  BY <1>2, <1>3, <1>4 DEF IInv, Handshake

-----------------------------------------------------------------------------
(* wlroots and the client                                                  *)

LEMMA SendConfigureInv == ASSUME IInv, SendConfigure PROVE IInv'
<1> DEFINE new == [serial |-> serial, size |-> asked]
<1>1. /\ unsent = TRUE /\ unsent' = FALSE /\ configures' = Append(configures, new)
      /\ serial' = serial /\ pending_serial' = pending_serial
      /\ configure_serial' = configure_serial
      /\ now_surface_request_resize' = now_surface_request_resize
  BY DEF SendConfigure, view, IInv, Handshake, RequestsOK
<1>2. /\ serial \in Nat /\ serial <= MaxSerial /\ pending_serial \in Nat
      /\ pending_serial <= serial
      /\ configure_serial \in Nat /\ configure_serial < serial
      /\ configures \in Seq(Configure) /\ Len(configures) \in Nat
  BY <1>1 DEF IInv, Handshake, RequestsOK, InOrder
<1>3. new \in Configure
  BY <1>2, SizeAssumption DEF IInv, GeometryOK, Configure
<1>4. /\ configures' \in Seq(Configure)
      /\ Len(configures') = Len(configures) + 1
      /\ \A i \in 1 .. Len(configures) : configures'[i] = configures[i]
      /\ configures'[Len(configures) + 1].serial = serial
  BY <1>1, <1>2, <1>3, AppendProperties
<1> HIDE DEF new
<1>5. \A i \in 1 .. Len(configures) :
        configures[i].serial < serial /\ configure_serial < configures[i].serial
  BY <1>1 DEF IInv, Handshake, InOrder
<1>6. RequestsOK'
  <2>1. /\ serial' \in Nat /\ serial' <= MaxSerial
        /\ pending_serial' \in Nat /\ pending_serial' <= serial'
        /\ configure_serial' \in Nat /\ configure_serial' <= serial'
    BY <1>1, <1>2
  <2> QED
    BY <1>1, <1>4, <2>1 DEF RequestsOK
<1>7. InOrder'
  <2>1. \A i \in 1 .. Len(configures') :
          i \in 1 .. Len(configures) \/ i = Len(configures) + 1
    BY <1>2, <1>4
  <2>2. \A i \in 1 .. Len(configures') :
          configures'[i].serial <= serial /\ configure_serial < configures'[i].serial
    <3>1. serial <= serial /\ configure_serial < serial
      BY <1>2
    <3>2. \A i \in 1 .. Len(configures) : configures[i].serial <= serial
      BY <1>5, Configures, <1>2 DEF IInv, Handshake
    <3> QED
      BY <1>4, <1>5, <2>1, <3>1, <3>2
  <2>3. ASSUME NEW i \in 1 .. Len(configures'), NEW j \in 1 .. Len(configures'), i < j
        PROVE  configures'[i].serial < configures'[j].serial
    <3>1. i \in 1 .. Len(configures)
      BY <1>2, <1>4, <2>1, <2>3
    <3>2. CASE j \in 1 .. Len(configures)
      BY <1>4, <2>3, <3>1, <3>2 DEF IInv, Handshake, InOrder
    <3>3. CASE j = Len(configures) + 1
      BY <1>4, <1>5, <3>1, <3>3
    <3> QED
      BY <2>1, <3>2, <3>3
  <2> QED
    BY <1>1, <2>2, <2>3 DEF InOrder
<1>8. AwaitedIsOnItsWay'
  <2>1. \E i \in 1 .. Len(configures') : configures'[i].serial >= pending_serial
    BY <1>2, <1>4
  <2>2. DOMAIN configures' = 1 .. Len(configures')
    BY <1>4
  <2> QED
    BY <1>1, <2>1, <2>2 DEF AwaitedIsOnItsWay
<1>9. AwaitsLast'
  BY <1>1 DEF IInv, Handshake, AwaitsLast, CaughtUp
<1>10. GeometryOK' /\ SettledNode'
  BY DEF SendConfigure, view, IInv, GeometryOK, SettledNode
<1> QED
  BY <1>6, <1>7, <1>8, <1>9, <1>10 DEF IInv, Handshake

\* What every commit does to the geometry.
LEMMA CommitGeometry ==
  ASSUME GeometryOK, SettledNode, NEW s, NEW size \in Size, checkcomit(s, size),
         size = drawn \/ pending_serial # 0 \/ ~now_surface_request_resize
  PROVE  GeometryOK' /\ SettledNode'
<1>1. node' \in Size
  BY DEF checkcomit, Reached, Settled, GeometryOK, Size
<1>2. GeometryOK'
  BY <1>1 DEF checkcomit, Reached, Settled, GeometryOK
<1>3. CASE pending_serial # 0 /\ s >= pending_serial
  <2>1. now_surface_request_resize' =>
          \A a \in Axis : resize_edges'[a] = "low" => node'[a] = anchor'[a] - drawn'[a]
    BY <1>3 DEF checkcomit, Reached, Settled
  <2> QED
    BY <1>2, <2>1 DEF SettledNode, GeometryOK, Size
<1>4. CASE ~(pending_serial # 0 /\ s >= pending_serial)
  BY <1>2, <1>4 DEF checkcomit, Reached, Settled, SettledNode
<1> QED
  BY <1>3, <1>4

LEMMA FrameInv == ASSUME IInv, Frame PROVE IInv'
<1>1. GeometryOK' /\ SettledNode'
  BY CommitGeometry DEF Frame, IInv, GeometryOK
<1>2. pending_serial # 0 => ~(configure_serial >= pending_serial)
  <2>1. /\ DOMAIN configures = 1 .. Len(configures)
        /\ \A i \in 1 .. Len(configures) : configures[i].serial \in Nat
    BY Configures DEF IInv, Handshake
  <2>2. pending_serial \in Nat /\ configure_serial \in Nat /\ serial \in Nat
    BY DEF IInv, Handshake, RequestsOK
  <2>3. SUFFICES ASSUME pending_serial # 0 PROVE configure_serial < pending_serial
    BY <2>2
  <2>4. ~CaughtUp
    BY <2>1, <2>3 DEF IInv, Handshake, AwaitedIsOnItsWay, CaughtUp
  <2>5. pending_serial = serial
    BY <2>3, <2>4 DEF IInv, Handshake, AwaitsLast
  <2>6. CASE unsent
    BY <2>5, <2>6 DEF IInv, Handshake, InOrder
  <2>7. CASE ~unsent
    <3>1. PICK i \in 1 .. Len(configures) : configures[i].serial >= pending_serial
      BY <2>1, <2>3, <2>7 DEF IInv, Handshake, AwaitedIsOnItsWay
    <3>2. configure_serial < configures[i].serial /\ configures[i].serial <= serial
      BY DEF IInv, Handshake, InOrder
    <3> QED
      BY <2>1, <2>2, <2>5, <3>2
  <2> QED
    BY <2>6, <2>7 DEF IInv, Handshake, RequestsOK
<1>3. UNCHANGED <<serial, pending_serial, configure_serial, unsent, configures,
                  now_surface_request_resize>>
  BY <1>2 DEF Frame, checkcomit, Reached, Settled
<1>4. Handshake'
  BY <1>3 DEF IInv, Handshake, RequestsOK, InOrder, AwaitedIsOnItsWay, AwaitsLast, CaughtUp
<1> QED
  BY <1>1, <1>4 DEF IInv

LEMMA AnswerInv == ASSUME IInv, NEW i \in 1 .. Len(configures), Answer(i) PROVE IInv'
<1> DEFINE s == configures[i].serial
           size == [a \in Axis |-> Fit(configures[i].size[a])]
           n == Len(configures)
<1>1. /\ configures \in Seq(Configure) /\ n \in Nat /\ i \in 1 .. n
      /\ serial \in Nat /\ serial <= MaxSerial /\ pending_serial \in Nat
      /\ pending_serial <= serial /\ unsent \in BOOLEAN
  BY DEF IInv, Handshake, RequestsOK
<1>2. \A j \in 1 .. n : configures[j] \in Configure /\ configures[j].serial \in Nat
  BY Configures DEF IInv, Handshake
<1>3. /\ configures' = SubSeq(configures, i + 1, n)
      /\ checkcomit(s, size)
  BY DEF Answer
<1>4. /\ configures' \in Seq(Configure)
      /\ Len(configures') = n - i
      /\ \A j \in 1 .. Len(configures') : configures'[j] = configures[j + i]
  <2>1. \A j \in i + 1 .. n : configures[j] \in Configure
    BY <1>1, <1>2
  <2>2. /\ SubSeq(configures, i + 1, n) \in Seq(Configure)
        /\ Len(SubSeq(configures, i + 1, n)) = IF i + 1 <= n THEN n - (i + 1) + 1 ELSE 0
        /\ \A j \in 1 .. n - (i + 1) + 1 :
             SubSeq(configures, i + 1, n)[j] = configures[i + 1 + j - 1]
    BY <1>1, <2>1, SubSeqProperties
  <2>3. n - (i + 1) + 1 = n - i /\ (~(i + 1 <= n) => n - i = 0)
    BY <1>1
  <2>4. \A j \in 1 .. n - i : i + 1 + j - 1 = j + i
    BY <1>1
  <2> QED
    BY <1>3, <2>2, <2>3, <2>4
<1>5. size \in Size
  <2>1. configures[i].size \in Size
    BY <1>1, <1>2 DEF Configure
  <2> QED
    BY <2>1, FitInt DEF Size
<1>6. /\ configure_serial' = s /\ s \in Nat /\ serial' = serial /\ unsent' = unsent
      /\ now_surface_request_resize' = now_surface_request_resize
      /\ pending_serial' = IF pending_serial # 0 /\ s >= pending_serial
                             THEN 0 ELSE pending_serial
  BY <1>1, <1>2, <1>3 DEF checkcomit, Reached, Settled
<1>7. /\ s <= serial /\ (unsent => s < serial)
      /\ \A j \in 1 .. n : i < j => s < configures[j].serial
      /\ \A j \in 1 .. n : j < i => configures[j].serial < s
  BY <1>1 DEF IInv, Handshake, InOrder
<1> HIDE DEF s, size, n
<1>8. RequestsOK'
  BY <1>1, <1>4, <1>6, <1>7 DEF RequestsOK
<1>9. \A j \in 1 .. Len(configures') : j + i \in 1 .. n /\ i < j + i
  BY <1>1, <1>4
<1>10. InOrder'
  <2>1. \A j, k \in 1 .. Len(configures') :
          j < k => configures'[j].serial < configures'[k].serial
    <3>1. \A j, k \in 1 .. n : j < k => configures[j].serial < configures[k].serial
      BY DEF IInv, Handshake, InOrder, n
    <3>2. \A j, k \in 1 .. Len(configures') : j < k => j + i < k + i
      BY <1>1, <1>4
    <3> QED
      BY <1>4, <1>9, <3>1, <3>2
  <2>2. \A j \in 1 .. n : configures[j].serial <= serial
                        /\ (unsent => configures[j].serial < serial)
    BY DEF IInv, Handshake, InOrder, n
  <2>3. \A j \in 1 .. Len(configures') :
          /\ configures'[j].serial <= serial'
          /\ unsent' => configures'[j].serial < serial'
          /\ configure_serial' < configures'[j].serial
    BY <1>4, <1>6, <1>7, <1>9, <2>2
  <2> QED
    BY <1>6, <1>7, <2>1, <2>3 DEF InOrder
<1>11. AwaitedIsOnItsWay'
  <2>1. SUFFICES ASSUME pending_serial # 0, s < pending_serial,
                        ~(unsent /\ serial = pending_serial)
                 PROVE  \E k \in 1 .. Len(configures') :
                          configures'[k].serial >= pending_serial
    BY <1>1, <1>4, <1>6 DEF AwaitedIsOnItsWay
  <2>2. PICK j \in 1 .. n : configures[j].serial >= pending_serial
    BY <1>1, <2>1 DEF IInv, Handshake, AwaitedIsOnItsWay, n
  <2>3. i < j
    BY <1>1, <1>2, <1>6, <1>7, <2>1, <2>2 DEF s
  <2>4. j - i \in 1 .. Len(configures') /\ (j - i) + i = j
    BY <1>1, <1>4, <2>2, <2>3
  <2> QED
    BY <1>4, <2>2, <2>4
<1>12. AwaitsLast'
  <2>1. SUFFICES ASSUME now_surface_request_resize, pending_serial' # serial'
                 PROVE  ~unsent /\ configures' = <<>>
    <3>1. pending_serial' # 0 => now_surface_request_resize'
      BY <1>6 DEF IInv, Handshake, AwaitsLast
    <3> QED
      BY <1>6, <3>1 DEF AwaitsLast, CaughtUp
  <2>2. configures # <<>>
    BY <1>1 DEF n
  <2>3. pending_serial = serial
    BY <2>1, <2>2 DEF IInv, Handshake, AwaitsLast, CaughtUp
  <2>4. s >= serial
    BY <1>1, <1>6, <2>1, <2>3
  <2>5. ~unsent
    BY <1>1, <1>6, <1>7, <2>4
  <2>6. Len(configures') = 0
    <3>1. \A j \in 1 .. n : configures[j].serial <= serial
      BY DEF IInv, Handshake, InOrder, n
    <3>2. \A j \in 1 .. n : ~(i < j)
      BY <1>1, <1>2, <1>6, <1>7, <2>4, <3>1
    <3>3. n \in 1 .. n
      BY <1>1
    <3> QED
      BY <1>1, <1>4, <3>2, <3>3
  <2> QED
    BY <1>4, <2>5, <2>6
<1>13. GeometryOK' /\ SettledNode'
  <2>1. configures # <<>>
    BY <1>1 DEF n
  <2>2. serial # 0
    <3>1. configure_serial \in Nat /\ configure_serial < s
      BY <1>1 DEF IInv, Handshake, RequestsOK, InOrder, s, n
    <3> QED
      BY <1>1, <1>6, <1>7, <3>1
  <2>3. now_surface_request_resize => pending_serial # 0
    BY <2>1, <2>2 DEF IInv, Handshake, AwaitsLast, CaughtUp
  <2> QED
    BY <1>3, <1>5, <2>3, CommitGeometry DEF IInv
<1> QED
  BY <1>8, <1>10, <1>11, <1>12, <1>13 DEF IInv, Handshake

LEMMA NextIInv == IInv /\ [Next]_vars => IInv'
<1> SUFFICES ASSUME IInv, [Next]_vars PROVE IInv'
  OBVIOUS
<1>1. ASSUME NEW c \in CursorPos, Grab(c) \/ Drag(c) PROVE IInv'
  BY <1>1, GrabInv, DragInv
<1>2. CASE Release
  BY <1>2, ReleaseInv
<1>3. CASE SendConfigure
  BY <1>3, SendConfigureInv
<1>4. ASSUME NEW i \in 1 .. Len(configures), Answer(i) PROVE IInv'
  BY <1>4, AnswerInv
<1>5. CASE Frame
  BY <1>5, FrameInv
<1>6. CASE UNCHANGED vars
  BY <1>6 DEF vars, view, client, IInv, GeometryOK, Handshake, RequestsOK, InOrder,
       AwaitedIsOnItsWay, AwaitsLast, CaughtUp, SettledNode
<1> QED
  BY <1>1, <1>2, <1>3, <1>4, <1>5, <1>6 DEF Next

LEMMA SettledWhenCaughtUp ==
  ASSUME RequestsOK, AwaitedIsOnItsWay, SettledNode PROVE FarEdgeSettles
<1>1. CaughtUp => pending_serial = 0
  BY DEF CaughtUp, AwaitedIsOnItsWay
<1> QED
  BY <1>1 DEF SettledNode, FarEdgeSettles

THEOREM Induction == Spec => []IInv
  BY InitIInv, NextIInv, PTL DEF Spec

\* Every variable has its type: in particular no size, position or serial that
\* the drag computes leaves its range.
THEOREM TypeCorrect == Spec => []TypeOK
<1>1. IInv => TypeOK
  BY TypeParts DEF IInv, Handshake
<1> QED
  BY <1>1, Induction, PTL

\* An awaited serial is still on its way to the client, so checkcomit ends the
\* wait when the client answers (view.c:56-73).
THEOREM AwaitedIsOnItsWayAlways == Spec => []AwaitedIsOnItsWay
<1>1. IInv => AwaitedIsOnItsWay
  BY DEF IInv, Handshake
<1> QED
  BY <1>1, Induction, PTL

\* When the client has caught up during a drag, the edge opposite to the dragged
\* one is where it was when the drag began (view.c:50-74, mouce_func.c:234-252).
THEOREM FarEdgeSettlesAlways == Spec => []FarEdgeSettles
<1>1. IInv => FarEdgeSettles
  BY SettledWhenCaughtUp DEF IInv, Handshake
<1> QED
  BY <1>1, Induction, PTL

-----------------------------------------------------------------------------
(* The dragged edge                                                        *)

\* During a drag the size that was asked for last is the one of the cursor, whatever
\* the client has drawn since.
AskedForCursor ==
  now_surface_request_resize =>
    \A a \in Axis :
      LET hold == cursor[a] + diff[a]
      IN  /\ resize_edges[a] = "low" =>
               asked[a] = Clamp(anchor[a] - hold, surface_size_value[a])
          /\ resize_edges[a] = "high" =>
               asked[a] = Clamp(hold - node[a], surface_size_value[a])

\* The last configure on its way has this size; when none is, it is drawn.
DrawsLast ==
  /\ ~unsent /\ configures # <<>> => configures[Len(configures)].size = asked
  /\ now_surface_request_resize /\ CaughtUp => \A a \in Axis : drawn[a] = Fit(asked[a])

LEMMA AskedStep ==
  ASSUME ResizeStep
  PROVE  AskedForCursor' /\ DrawsLast'
<1>1. /\ asked' = WantedSize /\ unsent' = TRUE
      /\ \A a \in Axis : resize_edges'[a] = "high" => node'[a] = node[a]
  BY DEF ResizeStep, set_size
<1>2. ASSUME NEW a \in Axis
      PROVE  /\ resize_edges'[a] = "low" =>
                  asked'[a] = Clamp(anchor'[a] - (cursor'[a] + diff'[a]), surface_size_value'[a])
             /\ resize_edges'[a] = "high" =>
                  asked'[a] = Clamp((cursor'[a] + diff'[a]) - node[a], surface_size_value'[a])
  BY <1>1, <1>2 DEF WantedSize, Wanted
<1>3. AskedForCursor'
  BY <1>1, <1>2 DEF AskedForCursor
<1>4. DrawsLast'
  BY <1>1 DEF DrawsLast, CaughtUp
<1> QED BY <1>3, <1>4

LEMMA CommitAsked ==
  ASSUME AskedForCursor, NEW s, NEW size, checkcomit(s, size)
  PROVE  AskedForCursor'
<1>1. /\ UNCHANGED <<cursor, now_surface_request_resize, resize_edges, diff, anchor,
                     surface_size_value, asked>>
      /\ now_surface_request_resize =>
           \A a \in Axis : resize_edges[a] = "high" => node'[a] = node[a]
  BY DEF checkcomit, Settled
<1> QED BY <1>1 DEF AskedForCursor

LEMMA EdgeStep ==
  ASSUME IInv, AskedForCursor, DrawsLast, [Next]_vars
  PROVE  AskedForCursor' /\ DrawsLast'
<1>1. configures \in Seq(Configure) /\ Len(configures) \in Nat
  BY DEF IInv, Handshake, RequestsOK
<1>2. ASSUME NEW c \in CursorPos, Grab(c) \/ Drag(c)
      PROVE  AskedForCursor' /\ DrawsLast'
  BY <1>2, AskedStep DEF Grab, Drag
<1>3. CASE Release
  BY <1>3 DEF Release, set_resizing, set_size, AskedForCursor, DrawsLast, CaughtUp
<1>4. CASE SendConfigure
  <2>1. /\ configures' = Append(configures, [serial |-> serial, size |-> asked])
        /\ asked' = asked /\ UNCHANGED <<cursor, view>>
    BY <1>4 DEF SendConfigure
  <2>2. [serial |-> serial, size |-> asked] \in Configure
    <3>1. serial # 0
      BY <1>4, SizeAssumption DEF SendConfigure, IInv, Handshake, RequestsOK, InOrder
    <3> QED BY <3>1, SizeAssumption DEF Configure, IInv, GeometryOK, Handshake, RequestsOK
  <2>3. configures' # <<>> /\ configures'[Len(configures')].size = asked
    BY <1>1, <2>1, <2>2, AppendProperties
  <2> QED BY <2>1, <2>3 DEF view, AskedForCursor, DrawsLast, CaughtUp
<1>5. ASSUME NEW i \in 1 .. Len(configures), Answer(i)
      PROVE  AskedForCursor' /\ DrawsLast'
  <2> DEFINE n == Len(configures)
  <2>1. /\ configures' = SubSeq(configures, i + 1, n)
        /\ checkcomit(configures[i].serial, [a \in Axis |-> Fit(configures[i].size[a])])
    BY <1>5 DEF Answer
  <2>2. AskedForCursor'
    BY <2>1, CommitAsked
  <2>3. /\ UNCHANGED <<unsent, asked>>
        /\ \A a \in Axis : drawn'[a] = Fit(configures[i].size[a])
    BY <2>1 DEF checkcomit
  <2>4. CASE i = n
    <3>1. configures' = <<>>
      BY <1>1, <2>1, <2>4, SubSeqEmpty
    <3>2. ~unsent => configures[i].size = asked
      BY <1>1, <2>4, EmptySeq DEF DrawsLast
    <3> QED BY <2>2, <2>3, <3>1, <3>2 DEF DrawsLast, CaughtUp
  <2>5. CASE i < n
    <3>1. \A j \in i + 1 .. n : configures[j] \in Configure
      BY <1>1
    <3>2. /\ configures' \in Seq(Configure)
          /\ Len(configures') = IF i + 1 <= n THEN n - (i + 1) + 1 ELSE 0
          /\ \A j \in 1 .. n - (i + 1) + 1 : configures'[j] = configures[i + 1 + j - 1]
      BY <1>1, <2>1, <3>1, SubSeqProperties
    <3>3. /\ Len(configures') = n - i /\ n - i \in 1 .. n - (i + 1) + 1
          /\ i + 1 + (n - i) - 1 = n
      BY <1>1, <2>5, <3>2
    <3>4. configures'[n - i] = configures[n]
      BY <3>2, <3>3
    <3>5. configures' # <<>> /\ configures # <<>>
      BY <1>1, <2>5, <3>3, EmptySeq
    <3> QED BY <2>2, <2>3, <3>3, <3>4, <3>5 DEF DrawsLast, CaughtUp
  <2> QED BY <1>1, <2>4, <2>5
<1>6. CASE Frame
  <2>1. AskedForCursor'
    BY <1>6, CommitAsked DEF Frame
  <2>2. UNCHANGED <<unsent, asked, configures, drawn, now_surface_request_resize>>
    BY <1>6 DEF Frame, checkcomit
  <2> QED BY <2>1, <2>2 DEF DrawsLast, CaughtUp
<1>7. CASE UNCHANGED vars
  BY <1>7 DEF vars, view, client, AskedForCursor, DrawsLast, CaughtUp
<1> QED BY <1>2, <1>3, <1>4, <1>5, <1>6, <1>7 DEF Next

\* A size between the limits is drawn less than a cell too small.
LEMMA FitsOrLimited ==
  ASSUME NEW n \in Int, NEW lim \in [min : Nat, max : Nat]
  PROVE  \/ n - Fit(Clamp(n, lim)) \in 0 .. Cell - 1
         \/ Fit(Clamp(n, lim)) \in {Fit(lim.min), Fit(lim.max)}
<1>1. Clamp(n, lim) \in {n, lim.min, lim.max}
  BY DEF Clamp
<1>2. n - Fit(n) \in 0 .. Cell - 1
  <2>1. n % Cell \in 0 .. Cell - 1 /\ Cell \in Nat
    BY SizeAssumption
  <2> DEFINE m == n % Cell
  <2>2. n - (n - m) = m /\ m \in 0 .. Cell - 1
    BY <2>1
  <2> QED BY <2>2 DEF Fit
<1> QED BY <1>1, <1>2

\* When the client has caught up, the dragged edge trails the cursor by less than a
\* cell and never passes it, or the window is at a limit, for every client and
\* every delay of its answers (view.c:160-162, mouce_func.c:160-258).
THEOREM EdgeFollowsCursorAlways == Spec => []EdgeFollowsCursor
<1>1. Init => AskedForCursor /\ DrawsLast
  BY DEF Init, AskedForCursor, DrawsLast
<1>2. IInv /\ AskedForCursor /\ DrawsLast => EdgeFollowsCursor
  <2> SUFFICES ASSUME IInv, AskedForCursor, DrawsLast,
                      now_surface_request_resize, CaughtUp, NEW a \in Axis
               PROVE  LET lim  == surface_size_value[a]
                          hold == cursor[a] + diff[a]
                      IN  \/ resize_edges[a] = "none"
                          \/ resize_edges[a] = "low"  /\ node[a] - hold \in 0 .. Cell - 1
                          \/ resize_edges[a] = "high" /\ hold - (node[a] + drawn[a]) \in 0 .. Cell - 1
                          \/ drawn[a] \in {Fit(lim.min), Fit(lim.max)}
    BY DEF EdgeFollowsCursor
  <2> DEFINE lim  == surface_size_value[a]
             hold == cursor[a] + diff[a]
  <2>1. /\ lim \in [min : Nat, max : Nat] /\ hold \in Int
        /\ node[a] \in Int /\ anchor[a] \in Int /\ drawn[a] \in Int
        /\ resize_edges[a] \in {"none", "low", "high"}
    BY DEF IInv, GeometryOK, Size, Edges
  <2>2. drawn[a] = Fit(asked[a])
    BY DEF DrawsLast
  <2>3. CASE resize_edges[a] = "low"
    <3>1. asked[a] = Clamp(anchor[a] - hold, lim)
      BY <2>3 DEF AskedForCursor
    <3>2. node[a] + drawn[a] = anchor[a]
      BY <2>3, SettledWhenCaughtUp DEF IInv, Handshake, FarEdgeSettles
    <3> HIDE DEF lim, hold
    <3> DEFINE wanted == anchor[a] - hold
    <3>3. wanted \in Int /\ wanted - drawn[a] = node[a] - hold
      BY <2>1, <3>2
    <3>4. drawn[a] = Fit(Clamp(wanted, lim))
      BY <2>2, <3>1
    <3> HIDE DEF wanted
    <3>5. wanted - drawn[a] \in 0 .. Cell - 1 \/ drawn[a] \in {Fit(lim.min), Fit(lim.max)}
      BY <2>1, <3>3, <3>4, FitsOrLimited
    <3> QED BY <2>3, <3>3, <3>5 DEF lim, hold
  <2>4. CASE resize_edges[a] = "high"
    <3>1. asked[a] = Clamp(hold - node[a], lim)
      BY <2>4 DEF AskedForCursor
    <3> HIDE DEF lim, hold
    <3> DEFINE wanted == hold - node[a]
    <3>2. wanted \in Int /\ wanted - drawn[a] = hold - (node[a] + drawn[a])
      BY <2>1
    <3>3. drawn[a] = Fit(Clamp(wanted, lim))
      BY <2>2, <3>1
    <3> HIDE DEF wanted
    <3>4. wanted - drawn[a] \in 0 .. Cell - 1 \/ drawn[a] \in {Fit(lim.min), Fit(lim.max)}
      BY <2>1, <3>2, <3>3, FitsOrLimited
    <3> QED BY <2>4, <3>2, <3>4 DEF lim, hold
  <2> QED BY <2>1, <2>3, <2>4
<1> QED BY <1>1, <1>2, Induction, EdgeStep, PTL DEF Spec
=============================================================================

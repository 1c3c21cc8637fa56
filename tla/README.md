# A TLA+ verification of ndn-lite-over-riot

ndn-lite-over-riot puts the NDN-Lite library on the RIOT operating system. The
repository holds the adaptation layer (faces on RIOT's network stack, time,
random numbers) and applications on top of it. NDN-Lite itself, and RIOT, are
not in the repository: where its code calls them they are modelled from that
use, and marked external in PROJECT.json.

This directory holds TLA+ modules of the code, TLC configurations that check
them on small instances, and TLAPS proofs of the results that hold for every
value of the constants.

## 1. The system

| Component | Source (under src/) | State | Operations |
|---|---|---|---|
| Link-layer faces | adaptation/gnrc-netface/netface.c, l2.c | table of faces: state, MTU, one assembler and its buffer each; the thread's mailbox | auto_construct, up, down, destroy, poll event, process_packet, send, send_fragments, send_packet |
| UDP face | adaptation/gnrc-udp/udp.c | one face, its registry entry, a second mailbox | construct, up, down, destroy, poll event, send |
| Start-up | adaptation/ndn-lite.c | none | ndn_lite_startup |
| Time, random numbers | adaptation/util, adaptation/security | none | conversions of what RIOT returns |
| Nightlight hub | app/smart-nightlight/smart-nightlight-hub.c | lastStatus, motionStopTime | initialize, a callback per sensor, turnOffMotion |
| Sensors | app/smart-nightlight/device-illuminance.c, device-motion.c | battery and value last published, timestamp | initialize, service_data_publishing |
| Light | app/smart-nightlight/device-light.c | a switch | (does not compile) |
| Bootstrapping device | app/eval/bootstrap/bootstrap.c | keys, anchor digest, pending Interests | main, on_data_1, on_data_2 |
| Bootstrapping controller | app/eval/controller/controller.c | trust anchor | main, on_interest_1, on_interest_2 |
| Simulated bootstrapping | app/helper/bootstrap-helper.h | key storage | simulate_bootstrap |
| Pub-sub evaluation | app/pubsub | cmd_generation, timestamp | initialize, one publication or one command |
| Examples | examples | running | one Interest with on_data and on_timeout, on_interest |

How they interact. An application calls ndn_lite_startup once and then
ndn_forwarder_process forever, in one thread. The forwarder runs the events of
NDN-Lite's message queue; the event of a face takes **at most one message from
the thread's mailbox, whichever face it is meant for**, hands its packet to the
forwarder and posts the event again. RIOT's network threads fill that mailbox
at the same time and share one packet buffer with the application. When the
forwarder wants to send, it calls the send of a face, which allocates packet
snips and hands them to the threads of the interface or of UDP. Nodes meet on
a broadcast link that neither acknowledges nor repeats. Applications meet only
through Interests, Data and publications.

What is hard here:

- *concurrency*: the mailbox and the packet buffer are shared with other
  threads; fragments of several senders are interleaved on the link;
- *ownership*: a packet must be released exactly once, after its last use;
- *keeping going*: one lost poll event makes a face deaf, and one message that
  is not answered blocks another thread for good;
- *limits*: a mailbox of eight, a message queue and a packet buffer that fill
  up, a buffer for re-assembly, at most 32 fragments, unsigned words;
- *failure half way*: an allocation or a hand-over fails between two fragments;
- *time and order*: reports of two sensors in any order against a delay; late
  and lost answers to Interests that nobody sends again.

PROJECT.json lists each of these at its line under "hazards", with the
properties that cover it.

What makes each component correct:

| Component | Correct when |
|---|---|
| Faces, receiving | each face keeps exactly one poll event; a queued packet is in use and has one owner; the forwarder only gets packets in use; each packet is released; every request is answered |
| Faces, sending | no call keeps a snip or releases one twice; no packet is refused without need, but one of 32 full fragments; frames fit the MTU and carry the packet in order; the result tells the truth; calls return |
| Link | whole packets, unmixed, at most once, unless identifiers collide |
| Hub | no light goes off during motion; darkness alone does not turn one on once motion ceased; lights go off some time after it |
| Sensors | only real levels are published; subscribers know the value closely enough; the hub, through them, turns the lights off |
| Programs | every service has its key before it is used; one command is sent |
| Examples | every accepted Interest ends the loop with one callback |
| Bootstrapping | per run one anchor is offered, that anchor is certified, once, and only a certified run ends; an undisturbed run completes |

## 2. Modules

```
  L2Frag ----------+---------------+-----------------+
  (fragments,      |               |                 |
   one assembler)  NetfaceRx       FaceTx            L2Link -- implements --> PacketService
                   |               |                 |
  L2FragProofs ----NetfaceRxProofs FaceTxProofs      L2LinkProofs

                Sensor
               /      \ INSTANCE, twice
     EXTENDS  /        \
        Programs      Home -- implements, EXTENDS --> Nightlight
           |            |                                |
  ProgramsProofs        +---------- HomeProofs ----------+

  Bootstrap -- implements --> Enrollment          Exchange
      |                                               |
  BootstrapProofs                               ExchangeProofs
```

Each MC module holds the instances of the module it is named after.

**L2Frag** has no state. The arithmetic of ndn_l2_send_fragments (l2.c:64-111)
and the assembler as a function on records. The assembler is NDN-Lite's and
therefore external; its behaviour is taken from what l2.c does with it. A
fragment that is misplaced or does not fit is refused; whether the assembler then starts over
with it, when it is a first one, is left open. Bytes are counted and not stored.

**NetfaceRx** is the receiving half. `AutoConstruct` and `SetUpNetface` are
ndn_netface_auto_construct, one pass of its loop per interface, with an MTU that cannot be
read and a face the forwarder refuses. `NetfaceReceive` is the poll event with
ndn_l2_process_packet inside it, `UdpRecv` that of the UDP face; the
`Udp...` actions are its life cycle. `Receive` and `Ask` are RIOT's threads.
A packet is a slot of the packet buffer: `live` says which slots are in use,
and `pkt` what they hold, so that a slot can be looked at after its release,
as it can in the program. `fwd` records the last delivery and whether its
packet was in use. `stale` is the memory that `msg` of ndn_udp_face_recv is
made of: the message of the call before, or garbage. A handler is one
action: nothing in it blocks, and a frame that arrives while it runs could as
well have arrived before it.

**FaceTx** is the sending half, from one call of the network stack to the
next, with a program counter. `own`, `handed` and `others` count snips by
owner, `chain` those that the call's pointer reaches: a release takes the latter
from `own`, which goes below 0 when they were not the call's any more.
`OthersAllocate`/`OthersRelease` are the rest of the node. An allocation may fail at any time, not only when the count is used up, since the
buffer is one of bytes. ndn_udp_face_send returns no value on most paths:
`ret` is then any value. `wire` holds, of each frame handed over, its size and
the byte of the packet that its payload begins with.

**L2Link** is several senders, a broadcast medium as one queue per sender (in
order, with gaps, interleaved), and one receiver with several faces. Since all
faces poll one mailbox (NetfaceRx), a frame goes to the assembler of any of
them. A packet that fits the MTU draws no identifier and collides with none. `content` is the list of frames whose bytes are in a face's buffer, which
is what it takes to tell a packet from a mixture. **PacketService** is what that
promises a forwarder: packets that were sent, whole, each sending at most once;
when two identifiers collided, bytes that are no packet as well.

**Nightlight** is the hub. motionStopTime is kept as its age (`sinceStop`,
`None` where the code has 0) and ages are not counted beyond delay + 1: the
code only asks whether more than the delay has passed, and an age that is
greater can no longer change the answer. The delay is a variable, as it is in
the code. Where it is 0, on_motion_publish reads the clock twice, and the clock may tick
in between (`ticked`). `command`, `motion`, `illuminance`, `sinceActive` and
`reported` are observations, on which no step depends. `command` is the
command published last: its identifier, which is part of the name, and its content. The
content is the identifier again (TurnOff, TurnOn) but where motion is the cause: there it is
the reading (TurnOnMoving).

**Sensor** is service_data_publishing of both sensors, which differ in what
they remember. `Minus` is the unsigned subtraction of the code. `used` is not counted above
101, from where on the difference has wrapped and is never published. It has
no specification of its own: **Programs** runs it in the loop of main, **Home**
next to the hub.

**Home** is the hub with both sensors and the library between them: the content
each sensor published last, and an answer under way to the hub, that may be
overtaken by a newer one, late or lost. Each of its steps is a step of the hub or none of
its variables: HomeImplementsHub.

**Programs** is the six programs that publish or subscribe, from
simulate_bootstrap to the loop of main. What they do in the same way is one
action (`SimulateBootstrap`, `InjectKey`, `EnterLoop`), and the tables in which
they differ are operators (`HubServices` and the like): the services registered
for encryption, those for access, and those that the injection loop looks for.
The storage has `AesSlots` keys; a NULL that it returns is written through, and
that service stays without a key.

**Exchange** is the consumers and producers of examples/, each in its loop, all
hearing each other: the Interest is refused, expires, or is used up by the
first packet that matches, be it an answer to somebody else or garbled. A
packet is taken from the node's mailbox, one in a round, as in NetfaceRx. The
link-layer and the UDP programs do the same.

**Bootstrap** is a device per member of `Devices` and one controller over
NDN-Lite's forwarder (external): `pit` is the Interests a device waits for,
Data bears the name of its Interest, and a name includes the key pair of the
run and the digest, as the code puts both into the parameters. `ReceiveData` is the
loop of main with on_data_1 or on_data_2, `ReceiveInterest` that of the
controller with its handlers. The link loses, delays and garbles; `Reset` and
`ControllerReset` are the loss of everything in memory. `answered` and
`mishap` are observations. **Enrollment** is what it promises without its
packets: in each run of a device, known by its key, at most one trust anchor is
offered, that anchor and no other is certified, at most once, and only a
certified run ends.

*Variants.* Definitions whose comment begins with "Variant" are no part of the
model. Each is its neighbour with one plausible mistake, and PROJECT.json
names for each property a variant that breaks it.

## 3. Runs

| Run | Configuration | Result | Question |
|---|---|---|---|
| rx_netface | MCNetfaceRx | holds | polling, ownership and requests with two interfaces and no UDP; a full mailbox drains, requests are answered |
| rx_udp | MCNetfaceRxUdp | holds | capacities and polling with the UDP face on the same mailbox; a full mailbox drains |
| rx_buffer | MCNetfaceRxBuffer | violated | can the packet buffer always recover? |
| rx_stale | MCNetfaceRxStale | violated | does the UDP face deliver only what it received? |
| tx | MCFaceTx | holds | snips, frames and results of both faces' send; which packets are refused; calls return |
| link | MCL2Link | holds | the link, with two faces at the receiver, implements PacketService; mixtures only when identifiers collide |
| link_live | MCL2LinkLive | holds | a lossless link delivers everything, even with one identifier for all |
| home | MCHome | holds | motion, flicker, with a delay and without, next to both sensors; lights go off after motion, and in lasting light |
| home_motion | MCHomeMotion | violated | do the lights go off some time after motion ceased? |
| programs | MCPrograms | holds | a key for every service; wrap-around, battery, tracking of the value; one command |
| bootstrap | MCBootstrap | holds | implements Enrollment under resets and loss; order of the exchange; an undisturbed run completes |
| exchange | MCExchange | holds | a callback for each accepted Interest; who goes round forever |

A violated run is a finding; PROJECT.json "findings" quotes the text the code
departs from. There are three: an unfragmented packet is never released
(l2.c:148), so that the packet buffer fills up; the UDP face acts on a message it
may not have received (udp.c:33); and the motion sensor never stores what it
published (device-motion.c:81). It therefore never publishes a reading of ten
or less: when motion ceases and readings stay that low, the hub goes on
fetching the last active content, and the lights stay on. Section 5 lists
smaller departures.

**Bounds, and why they are enough.**

- *NetfaceRx*: two interfaces, or one and the UDP face; two slots, a mailbox as large,
  and room for one event more than the faces need. The UDP face may be
  constructed at any time, and again. The mailbox and the buffer
  do get full, which is where the hazards are; two interfaces suffice for one to
  take the other's message. Frames are a whole packet and one or two fragments
  of one identifier. The real figures (8 messages, 500 bytes) are constants.
- *FaceTx*: a buffer of five snips, one more than the longest chain of a send;
  sizes 1 to 65 and MTUs 3, 5 and 8: an MTU without room for payload, sizes at
  and above the MTU, and at 32 fragments and one beyond.
- *L2Link*: two senders, two receiving faces, three packets of one, three and
  five frames, with an assembler of 6 bytes that the longest does not fit; two
  identifiers for the two that are fragmented, so that they collide, or not. In link_live
  one sender, one face, 10 bytes and one identifier.
- *Home*: delays of 0 and 2 ticks; motion of 5, 45 and 52 (never published,
  published as inactive, as active) and illuminance of 5, 45, 52 and 61: on both
  sides of the hub's 30 and 50, with differences above and below the sensor's
  ten. In home_motion readings of motion of 5 and 52.
- *Programs*: four keys, the fewest the hub and suber.c start with; rounds of 1, 2 or
  5 percent until the battery is spent and beyond, readings on both sides of every
  difference asked for.
- Word is 2^16 in place of 2^32 in both: the values compared are below 256, so
  that a wrapped one is above all of them.
- *Exchange*: two consumers and two producers, so that there are answers to
  somebody else and second answers; a lifetime of 2 rounds (5 in the code), enough for an
  answer to come before, at and after its end; a mailbox of 2, which gets full.
- *Bootstrap*: one device with three runs and three starts of the controller: late
  answers to earlier runs and anchors of earlier starts exist. Devices share only the
  controller, which keeps nothing of them; the theorems are for any number.

**Deadlock.** CHECK_DEADLOCK is FALSE where the model may stop for a reason
the system has: in NetfaceRx when no frame can arrive any more (all slots in use
and no poll event, a network that is silent), in L2Link when each of its finitely
many packets was sent, in Bootstrap when the starts are used up, in Programs when
puber.c or suber.c have nothing left to do, in Exchange when nothing is under
way, and in runs that look for one violation. FaceTx and Home never stop and
are checked for it.

**Fairness, and why the code justifies it.**

- *NetfaceRx*: weak fairness of the set-up and of each poll event. The
  application calls ndn_forwarder_process forever, and the message queue is
  first in, first out. None is assumed of the network threads.
- *FaceTx*: weak fairness of the steps of a call, which runs on in its thread;
  none of other threads.
- *L2Link*: weak fairness of sending and receiving, per sender. Loss and
  giving up have none, and are off (`Failures`) in link_live.
- *Home*: weak fairness of time and of the illuminance sensor's answers, strong
  fairness of their arrival: the hub asks every five seconds, and not every answer
  is lost. None of the sensors' readings, which may stay the same forever, nor
  of motion answers: LightsGoOff is about a motion sensor that falls silent. In
  home_motion its answers arrive as well, so that the violation is not one of
  a lost answer.
- *Programs*: weak fairness of the start, of control.c's command and of time. Nothing
  in main blocks.
- *Exchange*: weak fairness of every node's loop; none of the network, which may
  lose everything.
- *Bootstrap*: weak fairness of both loops receiving what is there; none of
  expiry, loss or resets, each of which is a mishap that Completes allows for.

## 4. Proofs

All are checked by TLAPS for every value of the constants that meets the
assumptions named in the modules. An asterisk marks a theorem of which no run
checks the formula itself; what it adds to the runs is said below.

| Module | Theorems |
|---|---|
| L2FragProofs | lemmas: what the assembler returns stays within its buffer, frame sizes are positive and fit; GuardRefusesFullPacket* |
| NetfaceRxProofs | TypeCorrect, OnePollerPerNetface, UdpFaceIsPolled, PollingRotates*; without the UDP face PacketsAreOwned, CallsAreFresh, FragmentsAreReleased, RequestsArePending, RequestsMoveForward* |
| FaceTxProofs | TxTypeCorrect, NothingIsKept, AllFramesFit, OnlyFullPacketsAreRefused, ResultTellsTheTruth, CallsAreBounded* |
| L2LinkProofs | LinkTypeCorrect, NoGarblingWithoutCollision, LinkImplementsService, LosslessLinkLosesNothing* |
| HomeProofs | of the hub: HubTypeCorrect, StopTimeFollowsMotion, LightsStayOnWhileMotion, DarknessAloneStaysOff; of the home: HomeTypeCorrect, HomeImplementsHub, HomeStaysLit, HomeStaysDark, BrightnessIsPublished*, StillnessIsNotHeard* |
| ProgramsProofs | ProgramsTypeCorrect, KeysAreAtHand, IlluminanceIsTracked, BatteryOnlyFalls |
| BootstrapProofs | BootstrapTypeCorrect, CertificatesFollowSignOn, EndsOnOwnCertificate, EnrollsOnce, BootstrapImplementsEnrollment, NobodyIsStuck*, UndisturbedGoForward* |
| ExchangeProofs | ExchangeTypeCorrect, OnlyRefusedAreStuck, WaitsAreBounded* |

*Assumptions.* Those on constants say what the code's types and build give:
the queue has room for an event of each interface, one for UDP and one more
(NetfaceRx), packets are not empty and MTUs are natural numbers, however small
(FaceTx, L2Link), four keys fit (Programs). Home assumes a word above 200 and readings of 0 to 85: both
sensors divide a random byte by three (device-motion.c:80,
device-illuminance.c:81). Theorems marked "without the UDP face" do not
hold with it: a stale message (rx_stale) and a mailbox that is initialised
again (udp.c:147) break them. `Reliable(n, i)`, in LosslessLinkLosesNothing, is
the setting of link_live: one sender, one receiving face, no failures.

The arguments:

- *Polling* (PollInv). The count of a face's events in the queue is one from
  its set-up on. That is inductive only together with a bound on the queue's
  length by the number of faces that were set up: a post is refused by a full
  queue, and the assumption on `EventSlots` with that bound says it never is.
  The UDP face may have many events, and its posts may be refused (UdpInv): but
  a full queue that holds at most one event of each other face holds one of the
  UDP face already, by the pigeonhole principle.
- *Ownership* (OwnInv, without UDP). No two messages hold the same slot, and
  each holds one in use. A frame takes a slot that is free, and a handler
  removes the message before it releases the slot. With the UDP face neither
  is true, as rx_stale shows.
- *Polling moves on.* A poll takes the event at the head and posts the same one
  at the tail; the post of anybody else goes behind. So the queue rotates
  (EventsRotate), and that a face is polled again does not depend on the
  fairness of each face's poll, which NetfaceRx's specification assumes, but
  follows from the forwarder running at all. Since a poll of *any* face takes
  the message at the head of the mailbox, a request is answered after as many polls as its
  place in the mailbox (RequestMoves).
- *Sending* (TxInv). At each step of the program counter, how many snips
  the call holds, that its pointer reaches exactly these, and how
  counter, offset and total relate; idle means none.
  For the result (HonestInv): the frames handed over reach as far as the
  fragmenter's offset, which lies short of the packet's end until the last one.
  That a call is over after at most 96 steps (CallLeft) rests on the same
  relation of counter and total: three steps a frame, and 32 frames.
- *The guard* (GuardRefusesFullPacket). l2.c:74 divides the size by the payload,
  where the number of fragments is that quotient rounded up. The two answers
  differ for no packet but the one of exactly 32 full fragments, so that a call that
  refuses a packet at once has to, or has that one (OnlyFullPacketsAreRefused).
- *Link* (LinkInv). Frames of a sender in the air are numbered upwards and
  below the next one to send; what an assembler has is the beginning of one
  packet, unless two packets have the same identifier; and a packet that was
  delivered has no frame left that could be received. The refinement maps
  `sent` and `log` to themselves and `collided` to "two fragmented packets that
  were sent have the same identifier".
- *Link without losses* (StreamInv). The frames still to come, in the air and then those
  the sender has yet to send, are consecutive up to the end of a packet
  (InOrder), the face waits for the first of them with exactly the fragments
  before it (Expects), and a packet that was sent and is not delivered has its
  last frame among them (NothingLost). Identifiers play no part, for a
  collision needs a packet that was broken off.
- *Hub* (HubInv). StopFollowsMotion and TypeOK are inductive together; the action
  properties follow from them. A step of Home changes the hub's variables by a step of the hub, or not at all, since what arrives
  was once read (HomeTypeOK): all of the hub's theorems hold of it.
- *What the sensors let the hub know.* An unsigned difference is at most ten
  exactly for a rise of at most ten. The illuminance sensor compares with what it
  published (Tracked), so that its content is at most ten below the reading
  and a reading above 60 is known to be bright. The motion sensor compares with
  0 (Heard), so that nothing of ten or less is ever published: the finding of
  home_motion is no accident of its readings.
- *Programs*. Before the loop, the services that have their key and those still
  to inject are together those found, and the slots in use are one more than
  the first (KeysInv): four suffice. Of the sensors, that 100 - used wraps exactly above
  100 and is then above any level published, and that a value that falls wraps above ten.
- *Bootstrapping* (BootInv). A device waits for at most one answer, to an
  Interest of its present run that bears the digest it holds; each certificate
  Interest on its way has a sign-on behind it; each Data on its way, garbled
  or not, was made by the controller. Late Data cannot match, since its name
  holds the key of an earlier run. The refinement takes the answers of the
  controller for offers and certificates. That each is given once (OnceInv)
  needs more: an Interest that was answered is not on its way any more, a run's
  certificate Interest exists once, and not before its sign-on was answered.
  For a run without a mishap (NeverStuck), what the device waits for is on its
  way as an Interest or as good Data. GoesForward counts what it still needs,
  four packets at first: no step of others adds to it, and each packet taken takes
  from it.
- *Exchange* (ExchangeInv). A consumer is idle, waiting, called or refused, and
  `running`, `pending`, `interest` and the calls it had are determined by which. The step
  that uses its Interest up, by Data or at the end of its lifetime, is the one
  that clears `running`; a round of the loop is the only thing that shortens
  the lifetime (WaitShrinks).

**Only model-checked**: every liveness property, since TLAPS does not do fairness,
nor ENABLED. Of most of them the argument is proved up to fairness:

| Property | Proved of it |
|---|---|
| CallReturns | CallsAreBounded: each step of the call lowers a count of at most 96 |
| OptionAnswered | RequestsArePending, RequestsMoveForward |
| FullMailboxDrains | PollingRotates: there is always a next poll, and each takes the message at the head |
| ReliablyDelivered | LosslessLinkLosesNothing: an idle sender and an empty air leave nothing undelivered |
| LightTurnsOff | BrightnessIsPublished |
| Completes | NobodyIsStuck, UndisturbedGoForward |
| LoopEnds | WaitsAreBounded |

Of LightsGoOff and CommandSentOnce, and of the findings' runs, TLC alone
speaks.

## 5. Where the code departs from its comments

Beside the three findings. The models behave as the code does, and no property
is stated for what the comment says.

| Code | Comment | What the code does |
|---|---|---|
| netface.c:191 | netface.h:52 "the initialized netfaces" | returns the count of interfaces, those skipped for an unreadable MTU included |
| l2.c:121-124 | l2.c:122 "discard" | a packet of another type is dropped and not released |
| l2.c:74 | l2.c:76 "too many fragments" | refuses a packet that fills 32 fragments exactly, and no other of at most 32 (RefusesOnlyFull, GuardRefusesFullPacket) |
| udp.c:44-49 | udp.c:43 "if not, discard" | logs the discard and delivers the packet |
| udp.c:80-89 | udp.c:82 "unregister the UDP event" | the poll event stays queued |
| udp.c:126-128 | udp.c:125 "add netif header" | writes through NULL if it cannot be allocated |
| netface.c:157, puber.c:126 | puber.c:129 `if (!face_ptr)` | every program takes netface[0], set up or not; the address of a member is never NULL |
| smart-nightlight-hub.c:116, :84 | :47 "when it's dark and motion is detected" | motion alone turns the lights on, and so does darkness alone while motion has not ceased |
| smart-nightlight-hub.c:120 | device-light.c:45 "uint8_t {On, Off} = {111, 112}" | publishes the sensor's reading (`&value`, four bytes) as content of the command, where lines 68, 79, 87 and 102 publish the command (one byte); device-light.c:79 reads four bytes of content and compares them with 111 |
| smart-nightlight-hub.c:98 | :55 "turning off happend immediately" | asks for more than the delay right after storing the time, so that it is never met in the same millisecond |
| device-illuminance.c:69 | :47 "[1, 100]" | publishes a battery of 0 |
| device-motion.c:81 | :60 "Value - lastValue > 10" | compares with 0, since last_motion is never assigned |
| ndn-consumer/main.c:33-39, udp-test/consumer/consumer.c:34-40 | "Decoding failed." | goes on and prints the content all the same |
| ndn-consumer/main.c:75-77 | - | if the Interest is refused, no callback will come and the loop never ends |
| device-illuminance.c:82 | :60 "Value - lastValue > 10" | publishes every fall, however small: the difference wraps |
| controller.c:75 | - | offers the anchor of its present start; a device that signed on before the controller was reset is certified under the anchor of the earlier start all the same (CertFollowsSignOn is about the anchor its run was offered) |
| bootstrap.c:152 | :151 "parse ecdh pub key, N2" | sets the controller's key from the device's own key |

## 6. Not modelled

- device-light.c does not compile: the type has `last_switich`, the code uses
  `last_switch`, and `on_motion_command` is not defined.
- How the nightlight's programs call their helpers. All four mains pass three
  arguments to simulate_bootstrap, which takes six (bootstrap-helper.h:62), and call
  ndn_udp_unicast_face_construct, which the repository does not define (it has
  ndn_udp_face_construct, udp.h:52): smart-nightlight-hub.c:188 and :195,
  device-illuminance.c:145 and :152, device-motion.c:143 and :150, device-light.c:111
  and :118. They do not build as they stand. Programs takes these calls as those of the
  helper there is; their callbacks and loops do not depend on it.
- The forwarder, pub-sub, access control and cryptography of NDN-Lite: not in
  the repository.
- Names, encodings, printing, logs of measurements, constant tables.
- The bytes of a stale message other than those of the previous call.
- The shell that the link-layer consumer starts after its loop.
- The random numbers (ndn-lite-rng-riot-impl.c passes RIOT's on): identifiers
  and readings are chosen freely.

## 7. What could come next

1. Exchange over L2Link: the packets of the examples are single frames, so that
   nothing would change until NDN-Lite's encoded sizes are known.
2. When device-light.c compiles: its callback, in Home, in place of `command`.

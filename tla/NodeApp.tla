------------------------------ MODULE NodeApp -------------------------------
(***************************************************************************)
(* What the nodes do with the commands of the coordinator, and what they   *)
(* answer: GenericApp_MessageMSGCB, GenericApp_SendTheMessage and          *)
(* GenericApp_HandleKeys (Projects/GenericApp/Source/GenericApp.c).  The   *)
(* kind of node, SENSOR_TYPE, is chosen when the program is built, and     *)
(* each kind has its own branch; here the kind is a parameter.  The build  *)
(* is the one of GenericApp.ewp: the address is the eight octets at a      *)
(* command's end (ZigBee_C_R_E_IEEE) and no CC2530_V30.                    *)
(*                                                                         *)
(* A node is a record of the program's variables:                          *)
(*   buf, switch    GenericApp_applicationbuf, GenericApp_switch           *)
(*   onoff, bx      GenericApp_ON_OFF, GenericApp_BX                       *)
(*   tmg            T_MG                                                   *)
(*   dir, turns, wait   a68, b68, c68 of the stepper motors                *)
(*   pins           the port pins; a relay is on when its pin is 0, but    *)
(*                  for the shade's two                                    *)
(*   out            what was last given to a display, a converter or an    *)
(*                  expander                                               *)
(*   data, len      Send_data from the octet 6, Send_datalend              *)
(*   index          GenericApp_applicationdata, the serial parser's count  *)
(*   wrote          what was written to the serial port                    *)
(*   lock           OSAL_SET_CPU_INTO_SLEEP                                *)
(*   say            GenericApp_SendTheMessage is called at the end         *)
(* A command's octets are d[1], the length, and d[9] onward.               *)
(***************************************************************************)
EXTENDS Integers, Sequences, FiniteSets, Functions, FiniteSetsExt, TLC

AA == \hAA
BB == \hBB
CC == \hCC
DD == \hDD
(* The octet SENSOR_TYPE of each kind.                                      *)
Type == "S" :> \h53 @@ "Q" :> \h51 @@ "H" :> \h48 @@ "P" :> \h50 @@ "K" :> \h4B @@ "U" :> \h55
     @@ "02" :> \h02 @@ "05" :> \h05 @@ "06" :> \h06 @@ "07" :> \h07 @@ "09" :> \h09 @@ "0A" :> \h0A
     @@ "12" :> \h12 @@ "13" :> \h13 @@ "14" :> \h14 @@ "15" :> \h15 @@ "18" :> \h18 @@ "22" :> \h22
     @@ "23" :> \h23 @@ "25" :> \h25 @@ "26" :> \h26 @@ "27" :> \h27 @@ "28" :> \h28 @@ "29" :> \h29
     @@ "30" :> \h30 @@ "31" :> \h31 @@ "40" :> \h40 @@ "65" :> \h65 @@ "66" :> \h66 @@ "67" :> \h67
     @@ "6A" :> \h6A @@ "6B" :> \h6B @@ "6C" :> \h6C @@ "6D" :> \h6D @@ "6E" :> \h6E @@ "6F" :> \h6F
     @@ "70" :> \h70 @@ "71" :> \h71 @@ "73" :> \h73 @@ "74" :> \h74 @@ "79" :> \h79 @@ "7B" :> \h7B
     @@ "7C" :> \h7C @@ "83" :> \h83 @@ "86" :> \h86 @@ "87" :> \h87 @@ "A3" :> \hA3 @@ "F0" :> \hF0

Pins == {"P0_4", "P0_5", "P1_0", "P1_1", "P1_2", "P1_3", "P1_4", "P1_5", "P1_6", "P1_7"}
P1 == <<"P1_0", "P1_1", "P1_2", "P1_3", "P1_4", "P1_5", "P1_6", "P1_7">>
(* The pins of p's domain take their values from p; the pin q takes v.     *)
Set(n, p) == [n EXCEPT !.pins = [q \in Pins |-> IF q \in DOMAIN p THEN p[q] ELSE @[q]]]
Put(n, q, v) == [n EXCEPT !.pins[q] = v]
All(ps, v) == [q \in ps |-> v]
BitOf(x, b) == (x \div (2^b)) % 2
Port1(n) == LET bit == [i \in 1 .. 8 |-> n.pins[P1[i]] * 2^(i - 1)] IN SumFunction(bit)

Piece(d, from, count) == [i \in 1 .. count |-> d[from + i - 1]]
Write(n, octets) == [n EXCEPT !.wrote = @ \o octets]
Done(n) == [n EXCEPT !.buf = 1]
Say(n) == [n EXCEPT !.say = TRUE]

-----------------------------------------------------------------------------
(* What each kind does with a command to it: lights, displays, gateways to *)
(* a serial device.  The branch taken is chosen by the command's octets;   *)
(* what no branch takes is still answered where Say is outermost.          *)
DoS(d, n) == Say(
  CASE d[9] = \hAB /\ d[10] \in {\hA1, \hB2} -> [n EXCEPT !.onoff = d[11], !.out = d[11], !.buf = 1]
    [] d[9] = CC -> [n EXCEPT !.buf = 2]
    [] OTHER -> n)

\* The scale's factor: kept in NV when it is in range, told in any case.
DoQ(d, n) == Say(
  IF d[9] = \hAB /\ d[10] = \hA1
  THEN LET k == IF d[11] \in 50 .. 150 THEN d[11] ELSE n.out
           sum == (n.data[6] + k) % 256
       IN  [n EXCEPT !.out = k, !.len = 4, !.data[7] = 0, !.data[8] = k, !.data[9] = sum]
  ELSE n)

Do29(d, n) == Say(
  CASE d[9] = \hAF -> Done(Write(n, Piece(d, 10, IF d[10] < 5 THEN d[10] + 1 ELSE 3)))
    [] d[9] = \hAD -> [n EXCEPT !.buf = 2]
    [] OTHER -> n)

\* The car that reads cards: a command is passed on silently, one is answered.
Do31(d, n) ==
  CASE d[9] = \hB4 -> Write(n, Piece(d, 10, 3))
    [] d[9] = \hED -> Say(Done([n EXCEPT !.out = 1]))
    [] d[9] = \hEA /\ d[11] = \hEA -> Write(n, Piece(d, 9, 3))
    [] OTHER -> n

\* A motor on four pins, with a converter for its speed.
Do67(d, n) ==
  LET turn(a, b) == "P0_4" :> a @@ "P0_5" :> b @@ "P1_0" :> a @@ "P1_1" :> b
      speed == (d[10] % 16) * 256 + d[11]
  IN Say(CASE d[9] = AA -> Done([Set(n, turn(1, 0)) EXCEPT !.out = speed])
           [] d[9] = BB -> Done([Set(n, turn(0, 1)) EXCEPT !.out = speed])
           [] d[9] = CC -> Done([Set(n, turn(0, 0)) EXCEPT !.out = 0])
           [] OTHER -> n)

Do6D(d, n) == Say(Done(Write(n, Piece(d, 9, d[1] - 3))))

\* The stepper of a curtain or a gate; an opened gate closes by itself later.
B01 == \h0D
Do30(d, n) ==
  LET run(dir, t) == [n EXCEPT !.dir = dir, !.turns = t]
      dirs == {\hAB, \hBA}
      gate(dir, wait) == [(IF n.dir = dir THEN n ELSE run(dir, B01)) EXCEPT !.wait = wait]
  IN Say(CASE d[9] = AA -> Done(IF d[10] \in dirs THEN run(d[10], d[11]) ELSE n)
           [] d[9] = \hAF -> Done(IF d[10] \in dirs THEN run(d[10], 250) ELSE n)
           [] d[9] = \hB0 /\ d[10] = AA /\ d[12] = BB ->
                Done(CASE d[11] = 1 -> gate(\hAB, 0) [] d[11] = 2 -> gate(\hBA, 150) [] OTHER -> n)
           [] OTHER -> n)

\* The stacker: eight places over the serial port, or the stepper by so many steps.
Do73(d, n) ==
  CASE d[10] \in {\hA8, \hAC} -> Write(n, Piece([d EXCEPT ![9] = 5], 9, 6))
    [] d[10] = \hA1 ->
         Say(Done([(IF d[11] \in {\hAB, \hBA}
                    THEN [n EXCEPT !.dir = d[11], !.turns = d[12] * 256 + d[13]]
                    ELSE n) EXCEPT !.data[10] = 0]))
    [] OTHER -> n

Do6A(d, n) == Say([n EXCEPT !.switch = 1, !.data[7] = d[9]])

\* LED screens.
Do6B(d, n) ==
  LET shown == CASE d[9] = DD -> Done(Write(n, <<2, \h33, d[10], 0>>))
                 [] d[9] = \hDE -> Done(Write(n, Piece(d, 9, 3)))
                 [] d[9] = \hDC -> Done(Write(n, Piece(d, 12, d[13] + 2)))
                 [] OTHER -> n
  IN  Say([shown EXCEPT !.data[7] = d[9]])

Show(n, what) == Say([n EXCEPT !.out = what, !.switch = 1])
Do65(d, n) == Show(n, d[10])
Do66(d, n) == Show(n, d[9])
\* The bus stop: a line's lamp is put on, the text is shown, the lamps go off.
Do6C(d, n) == Show(Set(n, All({"P1_1", "P1_2", "P1_3", "P1_4"}, 1)), d[9])
Do6E(d, n) == IF d[9] = 1 THEN Show(n, d[11]) ELSE n
Do28(d, n) == Show(n, IF d[9] = \hA1 THEN d[12] ELSE n.out)
Do6F(d, n) == Show(n, IF d[10] % 16 <= 3 \/ (d[10] \div 16) = \h0A THEN d[12] ELSE n.out)
Do27(d, n) == [n EXCEPT !.index = 0, !.out = d[12]]

\* The crossroads: what was passed on is answered as not done.
DoA3(d, n) == Say(
  CASE d[9] = \hB5 -> [Write(n, Piece(d, 10, 5)) EXCEPT !.buf = 0]
    [] d[9] = \hAD -> [n EXCEPT !.buf = 2]
    [] OTHER -> n)

-----------------------------------------------------------------------------
(* The shade's motor: P1_6 on runs it up, P1_7 on runs it down, for bx      *)
(* ticks of 100 ms.  From end to end it takes less than the 200 ticks of a *)
(* full run; a third of the way is Third ticks (50).                       *)
CONSTANT Third
ASSUME ThirdAssumption == Third \in Nat \ {0, 1}

Motor(up, down) == [q \in {"P1_6", "P1_7"} |-> IF q = "P1_6" THEN up ELSE down]
Up == Motor(1, 0)
Down == Motor(0, 1)
Halt == Motor(0, 0)
Run(n, way, thirds, to) == [Set(n, way) EXCEPT !.bx = thirds * Third, !.onoff = to]
Do05(d, n) == Say(
  IF d[9] # DD \/ d[10] # \hA3 THEN n
  ELSE Done(
    CASE d[11] = AA -> Write(Run(n, Up, 4, AA), <<1>>)
      [] d[11] = BB -> Write(Run(n, Down, 4, BB), <<3>>)
      [] d[11] = CC -> Write(Set(n, Halt), <<2>>)
      [] d[11] = \hA1 /\ n.onoff = \hA2 -> Run(n, Down, 1, \hA1)
      [] d[11] = \hA1 /\ n.onoff = AA -> Run(n, Down, 2, \hA1)
      [] d[11] = \hA1 /\ n.onoff = BB -> Run(n, Up, 1, \hA1)
      [] d[11] = \hA2 /\ n.onoff = \hA1 -> Run(n, Up, 1, \hA2)
      [] d[11] = \hA2 /\ n.onoff = AA -> Run(n, Down, 1, \hA2)
      [] d[11] = \hA2 /\ n.onoff = BB -> Run(n, Up, 2, \hA2)
      [] OTHER -> n))

-----------------------------------------------------------------------------
(* Relays, lamps and what hangs on the serial port.                        *)
Do06(d, n) ==
  CASE d[9] = DD -> Say(Done(Write(n, <<IF d[10] = 0 THEN BB ELSE d[10]>>)))
    [] d[9] = \hEA /\ d[11] = \hEA ->   \* the thermometer's octet, here n.out, goes with it
         Say([(IF d[10] > 0 THEN Write(n, Piece([d EXCEPT ![11] = n.out], 9, d[10] + 3)) ELSE n)
              EXCEPT !.buf = 2, !.data[8] = n.out])
    [] OTHER -> n

Do07(d, n) == IF d[9] = \hA1 THEN Write(n, Piece(d, 11, d[10])) ELSE n

Do09(d, n) == IF d[9] \in {DD, \hEA, \hEB} THEN Say(Done(Write(n, Piece(d, 9, 3)))) ELSE n

AskRead(n) == [n EXCEPT !.buf = 60001]
AskNow(n) == [AskRead(n) EXCEPT !.time = 0]
Do13(d, n) == IF Piece(d, 9, 3) = <<\h43, \hC3, \h6F>> THEN AskNow(n) ELSE n
Do14(d, n) == IF Piece(d, 9, 3) = <<1, 3, \h0C>> THEN AskNow(n) ELSE n
Do74(d, n) == IF d[9] = 1 /\ d[11] <= 16 THEN AskRead(Write(n, Piece(d, 12, d[11]))) ELSE n
DoF0(d, n) == Say(Done(Write(n, Piece(d, 9, 1))))

Do15(d, n) ==
  IF d[9] = DD THEN Say(Done(IF d[10] \in 1 .. 4 THEN Put(n, P1[d[10] + 1], 0) ELSE n)) ELSE n

OnOff(n, pin, x) == CASE x = AA -> Put(n, pin, 0) [] x = BB -> Put(n, pin, 1) [] OTHER -> n
DoH(d, n) == Say(
  CASE d[9] = DD /\ d[10] = 1 -> Done(OnOff(n, "P1_0", d[11]))
    [] d[9] = DD /\ d[10] = \hC0 /\ d[11] = AA -> Done(Set(n, Down))
    [] d[9] = DD /\ d[10] = \hC0 /\ d[11] = BB -> Done(Set(n, Up))
    [] d[9] = DD -> Done(n)
    [] d[9] = CC -> [n EXCEPT !.buf = 2]
    [] OTHER -> n)

DoP(d, n) == Say(Done(Write(n, <<1, 3, 6, d[9], d[10], (9 + d[9] + d[10]) % 256, \h0D, \h0A>>)))
Do02(d, n) == Say(IF d[9] = \hDC THEN Done(Write(n, Piece(d, 10, 1))) ELSE n)

\* A relay that may fall back by itself, after tmg ticks.
DoK(d, n) ==
  LET relay == CASE d[10] # 1 -> n
                 [] d[11] = AA -> [Put(n, "P1_0", 0) EXCEPT !.tmg = 1]
                 [] d[11] = BB -> [Put(n, "P1_0", 1) EXCEPT !.tmg = 0]
                 [] d[11] = CC -> [Put(n, "P1_0", 0) EXCEPT !.tmg = \h75]
                 [] OTHER -> n
      pulse == [(IF d[10] = 1 THEN Put(n, "P1_0", 0) ELSE n)
                EXCEPT !.tmg = IF d[11] <= 1 THEN \h0A ELSE d[11]]
  IN  Say(CASE d[9] = DD -> Done(relay)
            [] d[9] = \hEF -> Done(pulse)
            [] d[9] = CC -> [n EXCEPT !.buf = 2]
            [] OTHER -> n)

\* Two sockets, with a mask; the state told is that of the pins.
Sockets(n) == (1 - n.pins["P1_0"]) + 2 * (1 - n.pins["P1_5"])
Status79(n) == Say([n EXCEPT !.data[7] = 2, !.data[8] = DD, !.data[9] = Sockets(n), !.len = 4])
Do79(d, n) ==
  LET x == d[12] IN
  CASE d[10] = DD -> Status79(CASE d[11] = 1 -> Put(n, "P1_0", 1 - BitOf(x, 0))
                               [] d[11] = 2 -> Put(n, "P1_5", 1 - BitOf(x, 1))
                               [] d[11] = 3 -> Set(n, "P1_0" :> 1 - BitOf(x, 0)
                                                   @@ "P1_5" :> 1 - BitOf(x, 1))
                               [] OTHER -> n)
    [] d[10] \in {\hD1, \hD2} -> [n EXCEPT !.out = d[10]]
    [] OTHER -> n

\* Port 1's pins in the mask d[11] take the complement of d[12].
Do83(d, n) == Say(
  IF d[10] # DD THEN n
  ELSE Done(Set(n, [q \in {P1[i] : i \in {j \in 1 .. 8 : BitOf(d[11], j - 1) = 1}} |->
                     1 - BitOf(d[12], (CHOOSE i \in 1 .. 8 : P1[i] = q) - 1)])))

\* Two lamps and a buzzer; the first lamp may blink by itself.
Red(v) == "P1_3" :> 1 - v @@ "P1_4" :> v
Blue(v) == "P1_2" :> 1 - v @@ "P1_7" :> v
Buzz(v) == "P1_1" :> 1 - v @@ "P1_0" :> v
Do40(d, n) ==
  LET m == IF d[10] = \hB1 THEN n ELSE [n EXCEPT !.tmg = 0]
      on == d[11] = AA
      v == IF on THEN 1 ELSE 0
  IN IF d[9] # DD THEN n
     ELSE Say(Done(
       CASE d[11] \notin {AA, BB} -> m
         [] d[10] = \hA1 -> Set(m, Red(v))
         [] d[10] = \hA2 -> Set(m, Blue(v))
         [] d[10] = \hA3 -> IF on THEN [Set(m, Blue(0)) EXCEPT !.tmg = 1] ELSE Set(m, Red(0))
         [] d[10] = \hA4 -> Set(m, Blue(0) @@ Red(v))
         [] d[10] = \hA5 -> Set(m, Blue(v) @@ Red(0))
         [] d[10] = \hB1 -> Set(m, Buzz(v))
         [] OTHER -> m))

\* The reader of fingers: the order is kept for the next tick.
Do23(d, n) == CASE d[9] \in {AA, CC} -> [n EXCEPT !.out = (d[9] * 256 + d[10]) * 256 + d[11]]
                [] d[9] = BB -> [n EXCEPT !.out = BB]
                [] OTHER -> n

\* The curtain opens whatever d[11] says; a read asked for is undone by the answer.
Do12(d, n) ==
  IF d[9] # DD THEN Say(n)
  ELSE IF d[10] # 1 THEN Say(Done(n))
  ELSE LET m == [Set(n, Down) EXCEPT !.bx = 0, !.onoff = 0]
       IN  Say(CASE d[11] = AA -> Done(Put(m, "P1_0", 0))
                 [] d[11] = DD -> [m EXCEPT !.buf = 6001]
                 [] OTHER -> Done(m))
Do18(d, n) == IF d[9] # DD THEN n
              ELSE [n EXCEPT !.buf = IF d[10] = 1 /\ d[11] = AA THEN 6001 ELSE 1]

-----------------------------------------------------------------------------
(* Gateways pass on the frame inside the command, from the octet at, if    *)
(* its length goes with the command's, and forget what they were hearing.  *)
Inner(d, n, at, extra) ==
  IF d[at] = \hF7 /\ d[1] - d[at + 1] \in {\h0E, \h0F}
  THEN Write(n, Piece(d, at, d[at + 1] + extra)) ELSE n
Pass(d, n, at) == [Inner(d, n, at, 2) EXCEPT !.index = 0]
Do70(d, n) == Pass(d, Put(n, "P1_0", 1), 10)
Do71(d, n) ==
  IF d[12] \in {AA, BB} THEN Pass(d, n, 10)
  ELSE LET whole == Pass(d, n, 10)
       IN  IF whole.wrote = n.wrote THEN whole ELSE [whole EXCEPT !.wrote = Append(n.wrote, d[14])]
Do86(d, n) ==
  [(IF d[11] = \hF7 /\ d[1] - d[10] \in {\h0D, \h0E} THEN Write(n, Piece(d, 10, d[10] + 1)) ELSE n)
   EXCEPT !.index = 0]
Do87(d, n) ==
  [(IF d[12] = \h7B /\ d[1] - d[11] \in {\h0E, \h0F} THEN Write(n, Piece(d, 12, d[11])) ELSE n)
   EXCEPT !.index = 0]

Act(kind, d, n) ==
  CASE kind = "S" -> DoS(d, n) [] kind = "Q" -> DoQ(d, n) [] kind = "H" -> DoH(d, n)
    [] kind = "P" -> DoP(d, n) [] kind = "K" -> DoK(d, n) [] kind = "02" -> Do02(d, n)
    [] kind = "05" -> Do05(d, n) [] kind = "06" -> Do06(d, n) [] kind = "07" -> Do07(d, n)
    [] kind = "09" -> Do09(d, n) [] kind = "12" -> Do12(d, n) [] kind = "13" -> Do13(d, n)
    [] kind = "14" -> Do14(d, n) [] kind = "15" -> Do15(d, n) [] kind = "18" -> Do18(d, n)
    [] kind = "23" -> Do23(d, n) [] kind = "27" -> Do27(d, n) [] kind = "28" -> Do28(d, n)
    [] kind = "29" -> Do29(d, n) [] kind = "30" -> Do30(d, n) [] kind = "31" -> Do31(d, n)
    [] kind = "40" -> Do40(d, n) [] kind = "65" -> Do65(d, n) [] kind = "66" -> Do66(d, n)
    [] kind = "67" -> Do67(d, n) [] kind = "6A" -> Do6A(d, n) [] kind = "6B" -> Do6B(d, n)
    [] kind = "6C" -> Do6C(d, n) [] kind = "6D" -> Do6D(d, n) [] kind = "6E" -> Do6E(d, n)
    [] kind = "6F" -> Do6F(d, n) [] kind = "70" -> Do70(d, n) [] kind = "71" -> Do71(d, n)
    [] kind = "73" -> Do73(d, n) [] kind = "74" -> Do74(d, n) [] kind = "79" -> Do79(d, n)
    [] kind = "7C" -> Pass(d, n, 11) [] kind \in {"0A", "25", "26", "7B"} -> Pass(d, n, 10)
    [] kind = "83" -> Do83(d, n) [] kind = "86" -> Do86(d, n) [] kind = "87" -> Do87(d, n)
    [] kind = "A3" -> DoA3(d, n) [] kind = "F0" -> DoF0(d, n)
    [] OTHER -> n

-----------------------------------------------------------------------------
(***************************************************************************)
(* The application of one node: GenericApp_MessageMSGCB for the commands   *)
(* that reach it, GenericApp_SendTheMessage for what it tells,             *)
(* GenericApp_HandleKeys for its two buttons and GenericAppEndDeviceEB,    *)
(* called every 100 ms or so, for what it does by itself.  The commands'   *)
(* effects are in NodeCommands.  Modelled is the router, without           *)
(* POWER_SAVING, so timer 3 paces a collector's readings.                  *)
(*                                                                         *)
(* Every node answers to its own address and to a call to all nodes of its *)
(* kind (the trigger).  Some also act later: the shade stops, the relay    *)
(* falls back, the gate closes, a collector reads when its timer says so.  *)
(* A frame is given to AF once: a refusal (AF_OK = 0) is not retried here. *)
(*                                                                         *)
(* Variables beside the node's own (see NodeCommands; the collectors have  *)
(* also time, timing, timer):                                              *)
(*   told    the last frame given to AF, from Send_data[6] on              *)
(*   doing   what the last step was, and whether it had an effect          *)
(*   asked   a reading was asked for and not given yet                     *)
(*   mode    what the collector was last told about its timing             *)
(*   late    timer 3, or a read, came between a call for the default       *)
(*           timing and EB                                                 *)
(*   pos     where the shade is, in ticks of travel from its closed end    *)
(*   sure    nothing has disturbed the shade since its last full run       *)
(*   left    commands and presses still to come                            *)
(***************************************************************************)

CONSTANTS Kinds,          \* the kinds of node looked at
          Commands(_),    \* the octets d[1], d[9] .. of the commands to a kind
          Inputs          \* how many commands and presses come

NodeKinds == {"S", "Q", "H", "P", "K", "U", "02", "05", "06", "07", "09", "0A", "12", "13", "14", "15",
              "18", "22", "23", "25", "26", "27", "28", "29", "30", "31", "40", "65", "66", "67", "6A",
              "6B", "6C", "6D", "6E", "6F", "70", "71", "73", "74", "79", "7B", "7C", "83", "86", "87",
              "A3", "F0"}
ASSUME KindsAssumption == Kinds \subseteq NodeKinds
ASSUME CommandsAssumption == \A k \in Kinds : Commands(k) \subseteq [1 .. 60 -> 0 .. 255]

VARIABLES kind, node, told, doing, asked, mode, late, pos, sure, left
nodeVars == <<kind, node, told, doing, asked, mode, late, pos, sure, left>>

(* Collectors read when asked to; all but the printer take timing commands, *)
(* and two pass the question to the meter on their serial port.            *)
Timed == {"U", "22", "6A", "13", "14"}
Collectors == Timed \cup {"74"}
Meters == {"13", "14"}
DefaultPeriod == 25

-----------------------------------------------------------------------------
(* What is told.  The octets are marked AA for a trigger or a button, BB   *)
(* for a command; the flag is then taken back.                             *)
SumOf(n, at) == SumFunction([i \in 6 .. at - 1 |-> n.data[i]]) % 256
Summed(n, at) == [n EXCEPT !.data[at] = SumOf(n, at)]
Marked(n, places, x) ==
  [n EXCEPT !.data = [i \in DOMAIN @ |-> IF i \in places THEN x ELSE @[i]]]
ByFlag(n, flag) == CASE flag = 0 -> Marked(n, 7 .. 9, AA)
                     [] flag = 1 -> Marked(n, 7 .. 9, BB)
                     [] OTHER -> n
Cleared(n) == [n EXCEPT !.buf = 0]
Long(n, l) == [n EXCEPT !.len = l]
Test(n) == [n EXCEPT !.data[7] = CC, !.data[8] = 3, !.data[9] = n.onoff]

FillRelays(k, n) ==
  LET m == Cleared(Summed(ByFlag(n, n.buf), 10))
  IN CASE k \in {"H", "12"} -> Set(m, All({"P1_6", "P1_7"}, 1))
       [] k = "15" -> Set(m, [q \in Range(P1) |-> IF q \in {"P1_1", "P1_2", "P1_3", "P1_4"}
                                                  THEN 1 ELSE 0])
       [] OTHER -> m
FillA3(n) == Cleared(CASE n.buf \in {0, 1} -> Summed(Long(ByFlag(n, n.buf), 5), 10)
                       [] n.buf = 2 -> Summed(Long(Test(n), 5), 10)
                       [] n.buf = 3 -> Summed(Long(n, 6), 11)
                       [] OTHER -> n)
(* Mutant: the sum is made before the state is put in.                     *)
FillStateEarly(k, n) ==
  LET m == Summed(Long(IF n.buf = 2 THEN Test(n) ELSE ByFlag(n, n.buf), 6), 11)
  IN Cleared([m EXCEPT !.data[10] = IF k = "K" THEN n.tmg ELSE 255 - Port1(n)])
FillState(k, n) ==
  LET m == Long(IF n.buf = 2 THEN Test(n) ELSE ByFlag(n, n.buf), 6)
      state == IF k = "K" THEN n.tmg ELSE 255 - Port1(n)
  IN Cleared(Summed([m EXCEPT !.data[10] = state], 11))
Fill73(n) == Cleared(IF n.buf = 3 THEN n ELSE Summed(Long(ByFlag(n, n.buf), 6), 11))
FillPlain(n) ==
  Cleared(Summed(Long(IF n.buf = 2 THEN Marked(n, {7, 9}, BB) ELSE ByFlag(n, n.buf), 5), 10))
FillShown(n) == [Summed(ByFlag(n, n.switch), 10) EXCEPT !.switch = 0]
Fill6A(n) == [Summed(IF n.switch = 0 THEN ByFlag(n, 0) ELSE n, 10) EXCEPT !.switch = 0]
Fill6B(n) == Cleared(Summed(Long(IF n.buf = 1 THEN Marked(n, {8, 9}, BB) ELSE ByFlag(n, n.buf), 5), 10))
Fill31(n) == Cleared(IF n.buf \in {0, 1} THEN FillPlain(n) ELSE n)
FillGate(k, n) ==
  LET m == [n EXCEPT !.data[7] = 1, !.data[n.len + 6] = \h0F]
  IN CASE k \in {"25", "26", "70", "71"} -> Long(m, n.len + 1)
       [] k = "87" -> [m EXCEPT !.data[8] = 1]
       [] OTHER -> m

Fill(k, n0) ==
  LET n == [n0 EXCEPT !.data[6] = Type[k]] IN
  CASE k \in {"H", "12", "18", "15"} -> FillRelays(k, n)
    [] k = "23" -> Cleared(Summed(IF n.buf = 0 THEN ByFlag(n, 0) ELSE n, 10))
    [] k = "A3" -> FillA3(n)
    [] k \in {"K", "83"} -> FillState(k, n)
    [] k = "73" -> Fill73(n)
    [] k \in {"S", "02", "05", "40", "06", "09", "67", "30", "29"} -> FillPlain(n)
    [] k \in {"65", "66", "6C", "6E", "6F", "28"} -> FillShown(n)
    [] k = "6A" -> Fill6A(n)
    [] k \in {"P", "6D", "F0"} -> Cleared(Summed(Long(ByFlag(n, n.buf), 5), 10))
    [] k = "6B" -> Fill6B(n)
    [] k \in {"25", "26", "70", "71", "86", "87"} -> FillGate(k, n)
    [] k = "7B" -> Summed(n, 12)
    [] k = "27" -> [n EXCEPT !.data[8] = \h0F]
    [] k = "07" -> [n EXCEPT !.data[7] = 1]
    [] k = "31" -> Fill31(n)
    [] k = "U" -> Summed([n EXCEPT !.data[7] = n.out, !.data[8] = 0], 9)
    [] k = "22" -> Summed(n, 10)
    [] OTHER -> n

Frame(n) == [i \in 1 .. n.len |-> n.data[5 + i]]
(* n tells what it has, if say is set; the step did what, with an effect or not. *)
Tell(n, what, acted) ==
  LET f == Fill(kind, n)
      m == IF n.say THEN f ELSE n
  IN /\ node' = [m EXCEPT !.say = FALSE, !.wrote = <<>>]
     /\ told' = IF n.say THEN Frame(f) ELSE told
     /\ doing' = [what |-> what, acted |-> acted, said |-> n.say]
     /\ asked' = (asked /\ ~n.say)

-----------------------------------------------------------------------------
Start(k) ==
  [buf |-> IF k \in Collectors THEN 60001 ELSE 0, switch |-> 0, onoff |-> 0, bx |-> 0, tmg |-> 0,
   dir |-> 0, turns |-> 0, wait |-> 0, out |-> 0, index |-> 0, wrote |-> <<>>, say |-> FALSE,
   pins |-> [q \in Pins |-> IF \/ k = "05" /\ q \in {"P1_6", "P1_7"}
                               \/ k = "40" /\ q \in {"P1_0", "P1_4", "P1_7"} THEN 0 ELSE 1],
   data |-> [i \in 6 .. 44 |-> 0], lock |-> 0,
   len |-> CASE k \in {"U", "13", "70"} -> 4 [] k = "14" -> 7 [] OTHER -> 5,
   open |-> TRUE, blink |-> 0,
   time |-> IF k \in Collectors THEN 1 ELSE 0, timing |-> "none", timer |-> 0]

NodeInit == /\ kind \in Kinds
            /\ node = Start(kind)
            /\ told = <<>>
            /\ doing = [what |-> "start", acted |-> FALSE, said |-> FALSE]
            /\ asked = FALSE
            /\ mode = IF kind \in Collectors THEN "default" ELSE "none"
            /\ late = FALSE
            /\ pos \in IF kind = "05" THEN {0, 3 * Third} ELSE {0}
            /\ sure = FALSE
            /\ left = Inputs

Input == left > 0 /\ left' = left - 1
Still == UNCHANGED <<mode, late>>

Shown(n) == <<n.pins, n.out, n.onoff, n.dir, n.turns, n.tmg, n.wait>>
Running(n) == kind = "05" /\ \E q \in {"P1_6", "P1_7"} : n.pins[q] = 1
FullRun(n) == n.bx = 4 * Third /\ Running(n)
(* A run is believed if it began from a believed place, or goes to an end. *)
Believe(n, m) ==
  IF kind # "05" \/ (m.pins = n.pins /\ m.bx = n.bx /\ m.onoff = n.onoff) THEN sure
  ELSE FullRun(m) \/ (sure /\ ~Running(n))

(* A command to this node's own address.                                   *)
Command(d) ==
  LET n == Act(kind, d, node)
      m == IF kind = "07" THEN [n EXCEPT !.lock = 1] ELSE n
  IN /\ Input
     /\ Tell(m, "command", m.wrote # <<>> \/ Shown(m) # Shown(node))
     /\ sure' = Believe(node, m)
     /\ late' = (late \/ node.time # m.time)
     /\ UNCHANGED <<kind, mode, pos>>

(* A command to another node of the kind: only the lock of "07" is turned. *)
Overheard ==
  /\ Input /\ kind = "07"
  /\ node' = [node EXCEPT !.lock = 1]
  /\ UNCHANGED <<kind, told, doing, asked, mode, late, pos, sure>>

(* A call to every node of the kind.                                       *)
Trigger ==
  LET n == [node EXCEPT !.len = IF @ = 0 \/ @ > \h20 THEN 3 ELSE @, !.buf = 0, !.say = TRUE]
  IN /\ Input
     /\ Tell(IF kind = "07" THEN [n EXCEPT !.lock = 1] ELSE n, "trigger", FALSE)
     /\ Still /\ UNCHANGED <<kind, pos, sure>>

(* The command that puts the node's own activity off and on.               *)
Power(on) ==
  /\ Input
  /\ node' = [node EXCEPT !.open = on]
  /\ sure' = (sure /\ ~Running(node))
  /\ UNCHANGED <<kind, told, doing, asked, mode, late, pos>>

-----------------------------------------------------------------------------
(* The commands about a collector's timing, to all or to this one.         *)
Quiet == UNCHANGED <<kind, told, doing, pos, sure>>
(* Mutant: a default timing still to be started is forgotten.              *)
StoppedTimer(n) == [n EXCEPT !.timer = 0]
Stopped(n) == [n EXCEPT !.timer = 0, !.time = 0]
AllDefault ==
  /\ Input /\ kind \in Timed
  /\ node' = [node EXCEPT !.timing = "default", !.time = 1]
  /\ mode' = "default" /\ late' = FALSE
  /\ Quiet /\ UNCHANGED asked
AllClose ==
  /\ Input /\ kind \in Timed
  /\ node' = [Stopped(node) EXCEPT !.timing = "none"]
  /\ mode' = "closed" /\ UNCHANGED late
  /\ Quiet /\ UNCHANGED asked
SetPeriod(s) ==
  /\ Input /\ kind \in Timed
  /\ node' = [AskNow(node) EXCEPT !.timing = "set", !.timer = IF s < 2 THEN 1 ELSE s]
  /\ mode' = "set" /\ UNCHANGED late
  /\ asked' = TRUE
  /\ Quiet
Close ==
  /\ Input /\ kind \in Timed
  /\ node' = [AskRead(Stopped(node)) EXCEPT !.timing = "none"]
  /\ mode' = "closed" /\ UNCHANGED late
  /\ asked' = TRUE
  /\ Quiet
ReadNow ==
  /\ Input /\ kind \in Timed
  /\ node' = AskRead(node)
  /\ asked' = TRUE
  /\ Quiet /\ Still

(* T3_IRQ, when the period is over.                                        *)
Timer3 ==
  /\ node.timer > 0
  /\ node' = AskNow(node)
  /\ late' = (late \/ node.time = 1)
  /\ asked' = TRUE
  /\ Quiet /\ UNCHANGED <<mode, left>>

-----------------------------------------------------------------------------
(* The buttons.                                                            *)
Flip(n, q) == Put(n, q, 1 - n.pins[q])
KeyCollector(first) ==
  LET fresh == node.timing = "none"
      n == AskRead(node)
  IN /\ node' = IF ~fresh THEN n ELSE IF first THEN Stopped(n) ELSE [n EXCEPT !.time = 1]
     /\ mode' = IF ~fresh THEN mode ELSE IF first THEN "closed" ELSE "default"
     /\ late' = (late /\ ~(fresh /\ ~first))
     /\ asked' = TRUE
     /\ UNCHANGED <<told, doing>>
KeyState(first) ==
  CASE kind = "79" -> Status79(Flip(node, IF first THEN "P1_5" ELSE "P1_0"))
    [] kind = "83" -> Say([Flip(node, IF first THEN "P1_1" ELSE "P1_2") EXCEPT !.buf = 0])
    [] kind = "30" /\ first -> Say(IF node.dir # \hBA
                                   THEN [node EXCEPT !.dir = \hBA, !.turns = B01, !.wait = 150]
                                   ELSE [node EXCEPT !.dir = \hAB, !.turns = B01, !.wait = 0])
    [] OTHER -> Say([node EXCEPT !.buf = 0])
Key(first) ==
  /\ Input
  /\ \/ /\ kind \in Collectors
        /\ KeyCollector(first)
     \/ /\ kind \in {"K", "02", "06", "09", "12", "15", "18", "29", "40", "79", "83", "A3"} \cup
                    (IF first THEN {"30"} ELSE {})
        /\ Tell(KeyState(first), "key", FALSE)
        /\ Still
  /\ UNCHANGED <<kind, pos, sure>>

-----------------------------------------------------------------------------
(* GenericAppEndDeviceEB: what the node does by itself, every 100 ms.      *)
Moved == IF ~Running(node) THEN pos
         ELSE IF node.pins["P1_6"] = 1 THEN Min({pos + 1, 3 * Third}) ELSE Max({pos - 1, 0})
(* The motor runs on while the node is put off, though nothing counts.     *)
TickOff == /\ ~node.open /\ Running(node) /\ pos' = Moved /\ pos' # pos
           /\ UNCHANGED <<kind, node, told, doing, asked, mode, late, sure, left>>

(* Mutant: the shade's motor is stopped a tick late.                       *)
TickShadeLate == [(IF node.bx > 0 THEN node ELSE Set(node, Halt)) EXCEPT !.bx = IF @ > 0 THEN @ - 1 ELSE @]
TickShade == [(IF node.bx > 1 THEN node ELSE Set(node, Halt)) EXCEPT !.bx = IF @ > 1 THEN @ - 1 ELSE @]
TickRelay == IF node.tmg <= 1 THEN node
             ELSE IF node.tmg = 2 THEN [Put(node, "P1_0", 1) EXCEPT !.tmg = 0]
             ELSE [node EXCEPT !.tmg = @ - 1]
TickBlink == IF node.tmg # 1 THEN node
             ELSE LET b == node.blink + 1
                  IN CASE b = 5 -> [Set(node, Red(1)) EXCEPT !.blink = b]
                       [] b > 10 -> [Set(node, Red(0)) EXCEPT !.blink = 0]
                       [] OTHER -> [node EXCEPT !.blink = b]
(* The gate's motor makes all its turns in one go, or none at its stop.    *)
(* Mutant: the open gate's wait is not counted.                            *)
TickGateOpen(free) == IF free THEN [node EXCEPT !.turns = 0] ELSE node
TickGate(free) ==
  LET c == IF node.wait > 1 THEN node.wait - 1 ELSE node.wait
      n == IF c = 1 THEN [node EXCEPT !.wait = 0, !.dir = \hAB, !.turns = B01]
           ELSE [node EXCEPT !.wait = c]
  IN IF free THEN [n EXCEPT !.turns = 0] ELSE n
Tick ==
  /\ node.open
  /\ UNCHANGED <<kind, mode, late, sure, left>>
  /\ pos' = Moved
  /\ \/ kind = "05" /\ Tell(TickShade, "tick", FALSE)
     \/ kind = "K" /\ Tell(TickRelay, "tick", FALSE)
     \/ kind = "40" /\ Tell(TickBlink, "tick", FALSE)
     \/ kind = "30" /\ \E free \in BOOLEAN : Tell(TickGate(free), "tick", FALSE)
     \/ kind = "83" /\ \E down \in BOOLEAN :
          Tell(IF down THEN Flip(node, "P1_0") ELSE node, "tick", FALSE)

(* A collector starts the default timing and gives the reading asked for.  *)
(* Timer 3 may come while the two octets of the flag are being cleared.    *)
After(n) == IF n.timer > 0 THEN {0, 97, 59904, 60001} ELSE {0}
Reading(n) == CASE kind = "6A" -> [n EXCEPT !.switch = 2]
                [] kind = "74" -> Summed(Marked([n EXCEPT !.data[6] = Type[kind]], 7 .. 9, BB), 10)
                [] OTHER -> n
Due(n) == n.buf > 6000
Timing(n) == IF n.time = 1 /\ kind \in Timed THEN [n EXCEPT !.time = 0, !.timer = DefaultPeriod] ELSE n
Given(n, b) == Say(Reading([n EXCEPT !.buf = IF kind = "6A" /\ b = 0 THEN 1 ELSE b]))
Give(n) == \E b \in After(n) : Tell(Given(n, b), "tick", FALSE)
(* A meter is asked on the serial port, nothing is told yet.               *)
Ask(n) ==
  /\ node' \in {[n EXCEPT !.buf = b] : b \in After(n)}
  /\ asked' = FALSE
  /\ UNCHANGED <<told, doing>>
Collect ==
  /\ node.open /\ kind \in Collectors
  /\ UNCHANGED <<kind, mode, late, pos, sure, left>>
  /\ LET n == Timing(node)
     IN \/ ~Due(n) /\ Tell(n, "tick", FALSE)
        \/ Due(n) /\ kind \notin Meters /\ Give(n)
        \/ Due(n) /\ kind \in Meters /\ Ask(n)

(* Kind 22 measures at its own pace, and tells a change by itself.         *)
Measure ==
  /\ node.open /\ kind = "22"
  /\ UNCHANGED <<kind, mode, late, pos, sure, left>>
  /\ \E v \in {0, 20} :
       LET n == [node EXCEPT !.data[8] = v]
       IN IF v # n.out THEN Tell(Say([n EXCEPT !.out = v]), "tick", FALSE) ELSE Tell(n, "tick", FALSE)

NodeNext == \/ \E d \in Commands(kind) : Command(d)
            \/ Overheard \/ Trigger \/ \E on \in BOOLEAN : Power(on)
            \/ AllDefault \/ AllClose \/ \E s \in {1, 3} : SetPeriod(s)
            \/ Close \/ ReadNow \/ Timer3
            \/ \E first \in BOOLEAN : Key(first)
            \/ TickOff \/ Tick \/ Collect \/ Measure

(* EB is called again and again by the task loop or the power manager.     *)
NodeFairness == WF_nodeVars(Tick) /\ WF_nodeVars(Collect)
NodeSpec == NodeInit /\ [][NodeNext]_nodeVars /\ NodeFairness

-----------------------------------------------------------------------------
(* A node tells AA, "by myself", of nothing a command has changed, and the *)
(* last octet it tells is the sum of the others: the coordinator and the   *)
(* host behind it know a command was carried out by the answer only, and   *)
(* the answer is filled from flags the buttons, the trigger and the timer  *)
(* also use (GenericApp_SendTheMessage).  The crossroads (A3) and the      *)
(* stacker (73) answer AA to what they pass on, the curtain (12) repeats   *)
(* its last answer when its state is asked for; the sockets (79) tell      *)
(* their pins and the scale (Q) its factor and the sum of that, which is   *)
(* AA for the factor 89; theirs, the gateways' and the printer's answers   *)
(* carry no sum.                                                           *)
Excused == {"Q", "A3", "73", "12", "79"}
NoSum == {"Q", "79", "07", "0A", "12", "13", "14", "18", "25", "26", "27", "70", "71", "74", "7B", "7C", "86", "87"}
AnswersTellTheTruth ==
  doing.said =>
    /\ doing.what = "command" /\ doing.acted /\ kind \notin Excused => told[4] # AA
    /\ kind \notin NoSum =>
         told[Len(told)] = SumFunction([i \in 6 .. 4 + Len(told) |-> told[i - 5]]) % 256

(* What a node tells of its motor or relay it never measures: it is so all *)
(* the same.  A shade that has made a full run and was not disturbed since *)
(* stands, when it rests, where its last command put it, and its motor is  *)
(* never driven both ways; the relay is on when T_MG, which the node       *)
(* tells, is not 0 (DoK, Do05 and their ticks).                            *)
Place == [x \in {AA, BB, \hA1, \hA2} |->
            CASE x = AA -> 3 [] x = BB -> 0 [] x = \hA1 -> 1 [] x = \hA2 -> 2]
WhereItSays ==
  /\ kind = "05" =>
       /\ ~(node.pins["P1_6"] = 1 /\ node.pins["P1_7"] = 1)
       /\ sure /\ ~Running(node) => pos = Place[node.onoff] * Third
  /\ kind = "K" => /\ node.tmg = 0 => node.pins["P1_0"] = 1
                   /\ node.tmg = 1 => node.pins["P1_0"] = 0

(* A collector keeps the timing it was told last: with a period set, timer *)
(* 3 runs with it; closed, nothing is left that would start it again; with *)
(* the default, timer 3 runs with it or EB is about to start it, unless    *)
(* timer 3 or a meter's read came in between and took the request away     *)
(* (T3_IRQ, Do13, Do14).                                                   *)
PeriodKept ==
  kind \in Timed =>
    CASE mode = "set" -> node.timer \in {1, 3}
      [] mode = "closed" -> node.timer = 0 /\ node.time = 0
      [] mode = "default" -> node.time = 1 \/ node.timer = DefaultPeriod \/ late

(* The three together (GenericApp.c, for every kind of node).              *)
NodeSound == AnswersTellTheTruth /\ WhereItSays /\ PeriodKept

(* What a node has begun it ends, while it is not put off: the shade's     *)
(* motor stops, the relay falls back, the gate begins to close, and a      *)
(* reading asked for is given.                                             *)
Busy == \/ Running(node)
        \/ kind = "K" /\ node.tmg > 1
        \/ node.wait > 0
        \/ asked /\ kind \in Collectors
Ends == []<>(~Busy \/ ~node.open)
=============================================================================

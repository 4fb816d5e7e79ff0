----------------------------- MODULE SensorLink -----------------------------
(***************************************************************************)
(* The serial side of the sensor nodes: MT_UartProcessZToolData            *)
(* (Components/mt/MT_UART.c), which the build for each kind of sensor      *)
(* fills with a parser of that sensor's frames.  The parsers are written   *)
(* by hand and differ; they have three shapes, and each is one record:     *)
(*                                                                         *)
(*   framed   states with the octets each waits for, a length, a body that *)
(*            is read in pieces as large as there are octets               *)
(*   window   an array of the last octets that is tested after each        *)
(*   counted  so many octets, whatever they are, or up to a last one       *)
(*                                                                         *)
(* The callback takes octets one by one while the driver has any; others   *)
(* come meanwhile.  Octets are numbers.  What is done with a frame that    *)
(* was heard (most are sent on to the coordinator) is not followed here.   *)
(***************************************************************************)
EXTENDS Integers, Sequences, SequencesExt, FiniteSetsExt, TLC

Octet == 0 .. 255
Digit == 48 .. 57
CR == 13
LF == 10
Text(n) == [i \in 1 .. n |-> 96 + i]       \* n octets that mean nothing

-----------------------------------------------------------------------------
(* Framed parsers.  A row has edges: for octets of a set, the row to go to *)
(* and the length, "octet" plus a number or fixed; what no edge takes goes *)
(* to the first row, and may be followed by a clearing of the driver's     *)
(* octets: of "all" of them, or of "some", where the number of them is a   *)
(* variable that was never set.  The row 0 is where a frame is complete.   *)
Edge(of, to) == [of |-> of, to |-> to, len |-> "keep", add |-> 0, clear |-> "none"]
Length(of, to, add) == [Edge(of, to) EXCEPT !.len = "octet", !.add = add]
Fixed(of, to, n) == [Edge(of, to) EXCEPT !.len = "fixed", !.add = n]
Row(edges) == [row |-> "head", on |-> edges, clear |-> "none"]
Clearing(row, what) == [row EXCEPT !.clear = what]
(* A body of as many octets as the length says, less `short`; each piece   *)
(* is to begin with an octet of `first`, the body to end with one of       *)
(* `last`.                                                                 *)
Body(short, first, last) == [row |-> "body", short |-> short, first |-> first, last |-> last]
Plain == Body(0, Octet, Octet)
(* Text up to an octet.                                                    *)
Until(end, to) == [row |-> "text", end |-> end, to |-> to]

Framed(rows, frames) == [kind |-> "framed", rows |-> rows, frames |-> frames]
Frame(lead, body) == [octets |-> lead \o body, says |-> body]
(* Three frames of a kind, told apart by an octet.                         *)
Three(lead, n) == [k \in 1 .. 3 |-> Frame(lead, <<k>> \o Text(n - 1))]

(* A literal of octets, one row each, then the rest.                       *)
Word(octets, at, to) ==
  [i \in 1 .. Len(octets) |-> Row(<<Edge({octets[i]}, IF i = Len(octets) THEN to ELSE at + i)>>)]

\* The frame begins with an octet of `marks`; then its length, not 0; then as many.
Marked(marks) == <<Row(<<Edge(marks, 2)>>), Row(<<Length(1 .. 255, 3, 0)>>), Plain>>

X70 == Framed(Marked({241}), Three(<<241, 3>>, 3))
X71 == Framed(Marked({241, 247}), Three(<<247, 3>>, 3))
X7B == Framed(Marked({247}), Three(<<247, 3>>, 3))
X26 == Framed(Marked({247}), Three(<<247, 3>>, 3))
OO  == Framed(Marked({206}), Three(<<206, 3>>, 3))
X25 == Framed(<<Row(<<Edge({247}, 2), Edge({240}, 4)>>), Row(<<Length(1 .. 255, 3, 0)>>), Plain,
                Row(<<Length(1 .. 255, 5, 0)>>), Plain>>,
              <<Frame(<<247, 2>>, <<1, 1>>), Frame(<<240, 3>>, <<2, 2, 2>>), Frame(<<247, 1>>, <<3>>)>>)
\* The length is taken only if there was one before, and there never is.
X7C == Framed(<<Row(<<Edge({247}, 2)>>), Row(<<Fixed(Octet, 3, 0)>>), Plain>>, Three(<<247, 3>>, 3))
X73 == Framed(<<Row(<<Length({3, 5}, 2, 0)>>), Body(0, {168, 172}, Octet)>>,
              <<Frame(<<3>>, <<168, 1, 97>>), Frame(<<5>>, <<172, 2, 97, 98, 99>>), Frame(<<3>>, <<168, 3, 97>>)>>)
X78 == Framed(<<Row(<<Edge({90}, 2)>>), Clearing(Row(<<Edge({90}, 3)>>), "some"), Row(<<Edge(Octet, 4)>>),
                Clearing(Row(<<Length({6, 8}, 5, 1)>>), "some"), Plain>>,
              Three(<<90, 90, 21, 6>>, 7))
\* A frame without a body: the alarm of a radar.
X85 == Framed(<<Clearing(Row(<<Edge({165}, 2)>>), "some"), Row(<<Edge({21}, 3)>>),
                Clearing(Row(<<[Edge({186}, 0) EXCEPT !.clear = "some"]>>), "some")>>,
              [k \in 1 .. 3 |-> Frame(<<165, 21, 186>>, <<>>)])
SDS011 == Framed(<<Row(<<Edge({170}, 2)>>), Row(<<Fixed({192}, 3, 8)>>), Plain>>, Three(<<170, 192>>, 8))
\* The body is complete one octet before the pieces are.
X86 == Framed(<<Row(<<Length(1 .. 255, 2, 0)>>), Row(<<Edge({247}, 3)>>), Body(1, Octet, Octet)>>,
              Three(<<4, 247>>, 3))
RFID_NFC == Framed(<<Row(<<Edge({85}, 2)>>), Row(<<Fixed({170}, 3, 5)>>), Plain>>, Three(<<85, 170>>, 5))
X31Host == Framed(<<Row(<<Fixed({204}, 2, 2)>>), Plain>>, Three(<<204>>, 2))
UHF_A == Framed(<<Clearing(Row(<<Edge({229}, 2)>>), "all"), Row(<<Edge({0}, 3)>>), Row(<<Length(Octet, 4, -4)>>),
                  Row(<<Edge(Octet, 5)>>), Row(<<Edge(Octet, 6)>>), Row(<<Edge(Octet, 7)>>), Row(<<Edge(Octet, 8)>>),
                  Body(0, {226}, Octet)>>,
                [k \in 1 .. 3 |-> Frame(<<229, 0, 7, 1, 1, 1, 1>>, <<226, k, 97>>)])
UHF == Framed(<<Clearing(Row(<<Edge({229, 233}, 2)>>), "all"), Row(<<Edge({0}, 3)>>), Row(<<Length(Octet, 4, 0)>>), Plain>>,
              Three(<<233, 0, 4>>, 4))
RLM100 == Framed(<<Clearing(Row(<<Edge({170}, 2)>>), "all"), Row(<<Edge(17 .. 255, 3)>>), Row(<<Edge({32}, 4)>>),
                   Row(<<Fixed({0}, 5, 8)>>), Plain>>,
                 Three(<<170, 17, 32, 0>>, 8))
STM2_4G == Framed(<<Clearing(Row(<<Edge({2}, 2)>>), "all"), Row(<<Edge({3}, 3)>>), Row(<<Edge({4}, 4)>>), Row(<<Edge({5}, 5)>>),
                    Row(<<Fixed({0}, 6, 10)>>), Plain>>,
                  Three(<<2, 3, 4, 5, 0>>, 10))
NRF2_4G == Framed(<<Clearing(Row(<<Edge({85}, 2)>>), "all"), Row(<<Fixed({6}, 3, 6)>>), Plain>>, Three(<<85, 6>>, 6))
PN532 == Framed(<<Row(<<Edge({0}, 2)>>), Row(<<Edge({255}, 3), Edge({0}, 2)>>), Row(<<Length(12 .. 255, 4, 3)>>), Plain>>,
                Three(<<0, 0, 255, 12>>, 15))
HUABANG == Framed(<<Row(<<Edge({3}, 3), Edge(Octet, 2)>>), Row(<<Edge({3}, 3)>>), Row(<<Fixed({4}, 4, 6)>>), Plain>>,
                  Three(<<1, 3, 4>>, 6))

\* The coordinator: a frame for a node, or a command that ends in a reset.
Coordinator ==
  Framed(<<Row(<<Edge({253}, 2), Edge({204}, 4)>>), Row(<<Length(Octet \ {252}, 3, 4)>>), Plain,
           Row(<<Edge({238}, 5), Edge({187}, 7), Edge({170}, 9)>>),
           Row(<<Edge({238}, 6)>>), Row(<<Edge({221}, 0)>>),
           Row(<<Edge({187}, 8)>>), Row(<<Edge({221}, 0)>>),
           Row(<<Edge({170}, 10), Fixed({187}, 11, 4)>>), Row(<<Edge({221}, 0)>>), Body(0, Octet, {221})>>,
         <<Frame(<<253, 1>>, <<1, 2, 3, 4, 5>>), Frame(<<204, 187, 187, 221>>, <<>>),
           Frame(<<204, 170, 187>>, <<20, 18, 52, 221>>), Frame(<<253, 0>>, <<1, 2, 3, 4>>)>>)
\* The other coordinator: AT commands, FT...CR LF.
FT_AT == Framed(<<Row(<<Edge({70}, 2)>>), Row(<<Edge({84}, 3)>>), Until({CR}, 4),
                  Row(<<[Edge({LF}, 0) EXCEPT !.clear = "some"]>>)>>,
                [k \in 1 .. 3 |-> [octets |-> <<70, 84, 43, k + 64, CR, LF>>, says |-> <<43, k + 64>>]])

\* The answers of an NB-IoT modem, for the stages of the node's start.
NbOk == Framed(Word(<<79, 75, CR>>, 1, 4) \o <<Row(<<[Edge({LF}, 0) EXCEPT !.clear = "some"]>>)>>,
               [k \in 1 .. 3 |-> Frame(<<79, 75, CR, LF>>, <<>>)])
NbImei == Framed(Word(<<43, 67, 71, 83, 78, 58>>, 1, 7) \o <<Until({CR}, 8), Row(<<[Edge({LF}, 0) EXCEPT !.clear = "some"]>>)>>,
                 [k \in 1 .. 3 |-> [octets |-> <<43, 67, 71, 83, 78, 58, k + 47, CR, LF>>, says |-> <<k + 47>>]])
NbAttached == Framed(Word(<<43, 67, 71, 65, 84, 84, 58, 49, CR>>, 1, 10) \o <<Row(<<[Edge({LF}, 0) EXCEPT !.clear = "some"]>>)>>,
                     [k \in 1 .. 3 |-> Frame(<<43, 67, 71, 65, 84, 84, 58, 49, CR, LF>>, <<>>)])
\* The case of the number falls through into the next, which takes CR.
NbSocket == Framed(<<Row(<<Edge({CR}, 3)>>), Row(<<Edge({CR}, 3)>>)>>
                   \o Word(<<LF, CR, LF, 79, 75, CR>>, 3, 9) \o <<Row(<<[Edge({LF}, 0) EXCEPT !.clear = "some"]>>)>>,
                   [k \in 1 .. 3 |-> Frame(<<48, CR, LF, CR, LF, 79, 75, CR, LF>>, <<>>)])
NbNotice == Framed(Word(<<43, 78, 83, 79, 78, 77, 73, 58>>, 1, 9)
                   \o <<Row(<<Edge(Digit, 10)>>), Row(<<Edge({44}, 11)>>), Row(<<Edge(Octet, 12)>>),
                        Row(<<Edge({CR}, 15), Edge(Octet, 13)>>), Row(<<Edge({CR}, 15), Edge(Octet, 14)>>),
                        Row(<<Edge({CR}, 15)>>), Row(<<[Edge({LF}, 0) EXCEPT !.clear = "some"]>>)>>,
                   [k \in 1 .. 3 |-> Frame(<<43, 78, 83, 79, 78, 77, 73, 58, 49, 44, 50, 53, CR, LF>>, <<>>)])
NbDown == Framed(Word(<<49, 51, 57, 46, 49, 57, 54, 46, 50, 49, 56, 46, 49, 53, 54, 44>>, 1, 17)
                 \o [i \in 1 .. 4 |-> Row(<<Edge(Octet, 17 + i)>>)]
                 \o <<Row(<<Edge({44}, 22)>>), Row(<<Edge(Octet, 23)>>), Row(<<Edge({44}, 26), Edge(Octet, 24)>>),
                      Row(<<Edge({44}, 26), Edge(Octet, 25)>>), Row(<<Edge({44}, 26)>>),
                      Until({44}, 27), Row(<<[Edge(Octet, 0) EXCEPT !.clear = "some"]>>)>>,
                 [k \in 1 .. 3 |-> [octets |-> <<49, 51, 57, 46, 49, 57, 54, 46, 50, 49, 56, 46, 49, 53, 54, 44, 53, 54, 56, 51, 44,
                                                50, 53, 44, 52, 48 + k, 44, LF>>, says |-> <<52, 48 + k>>]])

-----------------------------------------------------------------------------
(* Windows.  An octet of `zero` starts the array anew.  The index is moved *)
(* before the octet is stored (`pre`) or behind it, up to `top`; from      *)
(* there it starts anew or stays, and overwrites the last place.  The test *)
(* is of places relative to the index; a place before the array is some    *)
(* other variable's.  A match at one of the indices `at` is a frame, its   *)
(* octets `says` are relative to the index or, if not negative, places of  *)
(* the array; then the first octets are cleared and the index is 0.  At    *)
(* another index a match does the last, or nothing (`on`).                 *)
Window(pre, top, over, test, at, says, clear) ==
  [kind |-> "window", pre |-> pre, top |-> top, over |-> over, zero |-> {}, test |-> test, at |-> at,
   says |-> says, clear |-> clear, on |-> TRUE, frames |-> <<>>]
Heard(w, octets) == [w EXCEPT !.frames = octets]
Places == 0 .. 64
Itself == 99      \* not a place: the octet that came

X72 == Heard(Window(FALSE, 24, "stay", <<<<-7, {170}>>, <<-1, {255}>>>>, Places, <<1, 2>>, 7),
             [k \in 1 .. 3 |-> [octets |-> <<170, k, 97, 98, 99, 100, 255>>, says |-> <<k, 97>>]])
XA3 == Heard(Window(FALSE, 6, "zero", <<<<-1, {221}>>, <<-6, {204}>>>>, Places, <<1, 2, 3, 4>>, 0),
             [k \in 1 .. 3 |-> [octets |-> <<204, k, 97, 98, 99, 221>>, says |-> <<k, 97, 98, 99>>]])
X08 == [Heard(Window(FALSE, 31, "stay", <<<<Itself, {93}>>>>, {11, 12} \cup 14 .. 32, <<7, 8, 5, 6>>, 16),
              [k \in 1 .. 3 |-> [octets |-> <<91>> \o Text(6) \o <<k, 98, 97, 99, 93>>, says |-> <<k, 98, 101, 102>>]])
        EXCEPT !.zero = {91}, !.on = FALSE]
TGRD15693 == [Heard(Window(FALSE, 37, "stay", <<<<-1, {LF}>>, <<-2, {CR}>>>>, 22 .. 38, <<-6, -5>>, 31),
                    [k \in 1 .. 3 |-> [octets |-> <<58>> \o Text(20) \o <<k, 97, 98, CR, LF>>, says |-> <<116, k>>]])
              EXCEPT !.zero = {58}, !.on = FALSE]
X0A == [Heard(Window(FALSE, 31, "zero", <<<<-1, {LF}>>, <<-2, {CR}>>>>, 17 .. 32, <<0, 1, 2>>, 16),
              [k \in 1 .. 3 |-> [octets |-> <<k>> \o Text(15) \o <<CR, LF>>, says |-> <<k, 97, 98>>]])
        EXCEPT !.on = FALSE]
X5A == Heard(Window(TRUE, 9, "zero", <<<<-5, {3}>>>>, {7}, <<4, 5>>, 17),
             [k \in 1 .. 3 |-> [octets |-> <<1, 3, 2, k, 97, 98, 99>>, says |-> <<k, 97>>]])
X0B == Heard(Window(TRUE, 31, "zero", <<<<-16, {83}>>, <<-15, {78}>>, <<-14, {58}>>>>, Places, <<-13, -12>>, 16),
             [k \in 1 .. 3 |-> [octets |-> <<83, 78, 58, k>> \o Text(13), says |-> <<k, 97>>]])
Ammeter == Heard(Window(TRUE, 31, "zero", <<<<0, {22}>>, <<-10, {104}>>, <<-17, {104}>>>>, Places, <<-11, -12>>, 17),
                 [k \in 1 .. 3 |-> [octets |-> <<104, 1, 2, 3, 4, 5, k, 104>> \o [i \in 1 .. 9 |-> 50 + i] \o <<22>>,
                                    says |-> <<k, 5>>]])
PH_A == Heard(Window(TRUE, 31, "zero", <<<<-16, {1}>>, <<-15, {3}>>, <<-14, {12}>>>>, Places, <<-13, -12>>, 17),
              [k \in 1 .. 3 |-> [octets |-> <<1, 3, 12, k + 96>> \o Text(13), says |-> <<k + 96, 97>>]])
PH_ORP == Heard(Window(TRUE, 9, "zero", <<<<-7, {0}>>, <<-6, {3}>>, <<-5, {4}>>>>, Places, <<-5, -4>>, 17),
                [k \in 1 .. 3 |-> [octets |-> <<0, 3, 4, k + 96, 97, 98, 99, 100>>, says |-> <<4, k + 96>>]])
\* The fingerprint reader's answers; the octet before the last says whether it went well.
X23 == Heard(Window(TRUE, 31, "zero", <<<<-11, {239}>>, <<-10, {1}>>, <<-5, {7}>>>>, Places, <<-2>>, 16),
             [k \in 1 .. 3 |-> [octets |-> <<239, 1, 97, 98, 99, 100, 7, 101, 102, k - 1, 97, 98>>, says |-> <<k - 1>>]])

-----------------------------------------------------------------------------
(* Counted: a number of octets, or up to one of a set.                     *)
Counted(n, start, end, frames) == [kind |-> "counted", n |-> n, start |-> start, end |-> end, frames |-> frames]
SameSize(lead, n) == [k \in 1 .. 3 |-> Frame(<<>>, lead \o <<k>> \o Text(n - 1 - Len(lead)))]

XG   == Counted(6, Octet, {}, SameSize(<<>>, 6))
X79  == Counted(6, Octet, {}, SameSize(<<>>, 6))
RFID125K == Counted(6, Octet, {}, SameSize(<<>>, 6))
X20  == Counted(7, 160 .. 255, {}, SameSize(<<160>>, 7))
X27  == Counted(1, {65, 69}, {}, <<Frame(<<>>, <<65>>), Frame(<<>>, <<69>>), Frame(<<>>, <<65>>)>>)
XT   == Counted(65536, Octet, {CR}, [k \in 1 .. 3 |-> Frame(<<>>, <<k, 97, 98, CR>>)])

(* What has come when the first octet is taken, if it is all of an object. *)
X87  == [kind |-> "burst", open |-> {123}, close |-> {125},
         frames |-> [k \in 1 .. 3 |-> Frame(<<>>, <<123, k, 97, 125>>)]]

Sensors ==
  ("0x70" :> X70) @@ ("0x71" :> X71) @@ ("0x7B" :> X7B) @@ ("0x26" :> X26) @@ ("O" :> OO) @@ ("0x25" :> X25)
  @@ ("0x7C" :> X7C) @@ ("0x73" :> X73) @@ ("0x78" :> X78) @@ ("0x85" :> X85) @@ ("SDS011" :> SDS011)
  @@ ("0x86" :> X86) @@ ("RFID_NFC" :> RFID_NFC) @@ ("0x31 host" :> X31Host) @@ ("UHF A" :> UHF_A)
  @@ ("UHF" :> UHF) @@ ("RLM100" :> RLM100) @@ ("STM2_4G" :> STM2_4G) @@ ("NRF2_4G" :> NRF2_4G)
  @@ ("PN532" :> PN532) @@ ("HUABANG" :> HUABANG) @@ ("coordinator" :> Coordinator) @@ ("FT_AT" :> FT_AT)
  @@ ("NB OK" :> NbOk) @@ ("NB IMEI" :> NbImei) @@ ("NB attached" :> NbAttached) @@ ("NB socket" :> NbSocket)
  @@ ("NB notice" :> NbNotice) @@ ("NB down" :> NbDown) @@ ("0x72" :> X72) @@ ("0xA3" :> XA3) @@ ("0x08" :> X08)
  @@ ("TGRD15693" :> TGRD15693) @@ ("0x0A" :> X0A) @@ ("0x5A" :> X5A) @@ ("0x0B" :> X0B) @@ ("ammeter" :> Ammeter)
  @@ ("PH_A" :> PH_A) @@ ("PH_ORP" :> PH_ORP) @@ ("0x23" :> X23) @@ ("G" :> XG) @@ ("0x79" :> X79)
  @@ ("RFID125K" :> RFID125K) @@ ("0x20" :> X20) @@ ("0x27" :> X27) @@ ("T" :> XT) @@ ("0x87" :> X87)

-----------------------------------------------------------------------------
(***************************************************************************)
(* A sensor sends its frames over the serial line and its node's parser    *)
(* (SensorSerial) hears them.  One octet of the first frame may be lost,   *)
(* and there may be noise before it: at power-up the node starts to listen *)
(* in the middle of what the sensor is saying.                             *)
(***************************************************************************)

CONSTANTS
    Kinds,      \* the sensors looked at
    Noise,      \* octets of noise, if there is any
    Before,     \* what the variables in front of the array of a window hold
    Waiting     \* bound: octets in the driver

VARIABLES
    sensor,     \* the kind of sensor the node is built for
    line,       \* what is sent
    clean,      \* nothing is lost and there is no noise
    pauses,     \* the sensor pauses between two frames
    sent,       \* octets of the line that came
    avail,      \* those the driver holds
    p,          \* the parser: its row and variables, and what it has gathered
    out         \* history: what was heard

linkVars == <<sensor, line, clean, pauses, sent, avail, p, out>>

Parser == Sensors[sensor]
\* The index of a window runs on over several frames until one fits.
FramesOf(s) == LET f == Sensors[s].frames IN IF Sensors[s].kind = "window" THEN f \o f \o f \o f ELSE f
Frames == FramesOf(sensor)
OctetsOf(frames) == FlattenSeq([i \in DOMAIN frames |-> frames[i].octets])

LinkInit ==
  /\ sensor \in Kinds
  /\ LET f == Frames
     IN \E noise \in {0, Noise}, lost \in 0 .. Len(f[1].octets) :
          /\ line = [i \in 1 .. noise |-> 0]
                    \o (IF lost = 0 THEN f[1].octets ELSE RemoveAt(f[1].octets, lost)) \o OctetsOf(Tail(f))
          /\ clean = (noise = 0 /\ lost = 0)
  /\ pauses \in BOOLEAN
  /\ sent = 0 /\ avail = <<>> /\ out = <<>>
  /\ p = [row |-> 1, len |-> 0, n |-> 0, got |-> <<>>, buf |-> [i \in Places |-> 0]]

\* The octets that begin a frame other than the first.
FrameStarts == {Len(line) - Len(OctetsOf(SubSeq(Frames, i, Len(Frames)))) + 1 : i \in 2 .. Len(Frames)}

Arrive ==
  /\ sent < Len(line) /\ Len(avail) < Waiting
  /\ (pauses /\ sent + 1 \in FrameStarts) => avail = <<>>
  /\ avail' = Append(avail, line[sent + 1])
  /\ sent' = sent + 1
  /\ UNCHANGED <<sensor, line, clean, pauses, p, out>>

-----------------------------------------------------------------------------
(* What an octet does: the parser's state, the octets left in the driver,  *)
(* and the frames it completes.                                            *)
LinkAfter(q, rest, said) == [p |-> q, rest |-> rest, said |-> said]

\* Mutant: an octet that does not fit leaves the parser where it is.
StartStays(q) == q

\* An octet that does not fit sends the parser back to its first state.
LinkStart(q) == [q EXCEPT !.row = 1]

\* HalUARTCLER, with the number of octets in the driver or with no number.
Left(rest, clear) ==
  CASE clear = "none" -> {rest}
    [] clear = "all" -> {<<>>}
    [] clear = "some" -> {SubSeq(rest, k + 1, Len(rest)) : k \in 0 .. Len(rest)}

Taken(e, ch) == CASE e.len = "keep" -> p.len [] e.len = "fixed" -> e.add [] e.len = "octet" -> (ch + e.add) % 256

HeadStep(r, ch, rest) ==
  LET hits == {i \in DOMAIN r.on : ch \in r.on[i].of}
      e == r.on[Min(hits)]
      complete == e.to = 0
      next == IF complete THEN 1 ELSE e.to
      fresh == complete \/ Parser.rows[next].row # "head"
  IN IF hits = {} THEN {LinkAfter(LinkStart(p), x, <<>>) : x \in Left(rest, r.clear)}
     ELSE {LinkAfter([p EXCEPT !.row = next, !.len = Taken(e, ch), !.n = IF e.len = "keep" THEN p.n ELSE 0,
                               !.got = IF fresh THEN <<>> ELSE p.got],
                 x, IF complete THEN <<p.got>> ELSE <<>>) : x \in Left(rest, e.clear)}

\* Mutant: a piece goes one octet past the body.
PieceTooLong(rest, room) == IF Len(rest) <= room + 1 \/ room < 0 THEN Len(rest) ELSE room + 1

\* The piece read at once: what is there, up to the end of the body.  A room
\* below 0 is taken for a very large number.
Piece(rest, room) == IF Len(rest) <= room \/ room < 0 THEN Len(rest) ELSE room

BodyStep(r, ch, rest) ==
  LET room == p.len - (p.n + 1)
      k == Piece(rest, room)
      n == IF Len(rest) <= room THEN p.n + 1 + Len(rest) ELSE p.len
      got == p.got \o <<ch>> \o SubSeq(rest, 1, k)
      left == SubSeq(rest, k + 1, Len(rest))
  IN IF ch \notin r.first THEN {LinkAfter(LinkStart(p), rest, <<>>)}
     ELSE IF n # p.len - r.short THEN {LinkAfter([p EXCEPT !.n = n, !.got = got], left, <<>>)}
     ELSE {LinkAfter([p EXCEPT !.row = 1, !.n = n, !.got = <<>>], left, IF Last(got) \in r.last THEN <<got>> ELSE <<>>)}

TextStep(r, ch, rest) ==
  {LinkAfter(IF ch \in r.end THEN [p EXCEPT !.row = r.to] ELSE [p EXCEPT !.got = Append(@, ch)], rest, <<>>)}

WindowStep(ch, rest) ==
  LET w == Parser
      from == IF ch \in w.zero THEN 0 ELSE p.n
      moved == IF from <= w.top THEN from + 1 ELSE IF w.over = "zero" THEN 0 ELSE from
      place == IF w.pre THEN moved ELSE from
      buf == [p.buf EXCEPT ![place] = ch]
      At(o) == IF o = Itself THEN {ch} ELSE IF moved + o < 0 THEN Before ELSE {buf[moved + o]}
      may == \A i \in DOMAIN w.test : At(w.test[i][1]) \cap w.test[i][2] # {}
      must == \A i \in DOMAIN w.test : At(w.test[i][1]) \subseteq w.test[i][2]
      Said(i) == LET k == IF w.says[i] < 0 THEN moved + w.says[i] ELSE w.says[i]
                 IN IF k < 0 THEN 0 ELSE buf[k]
      missed == LinkAfter([p EXCEPT !.n = moved, !.buf = buf], rest, <<>>)
      match == IF moved \in w.at
               THEN LinkAfter([p EXCEPT !.n = 0, !.buf = [i \in Places |-> IF i < w.clear THEN 0 ELSE buf[i]]], rest,
                              <<[i \in DOMAIN w.says |-> Said(i)]>>)
               ELSE IF w.on THEN missed ELSE LinkAfter([p EXCEPT !.n = 0, !.buf = buf], rest, <<>>)
  IN (IF may THEN {match} ELSE {}) \cup (IF must THEN {} ELSE {missed})

CountedStep(ch, rest) ==
  LET got == Append(p.got, ch)
      complete == Len(got) = Parser.n \/ ch \in Parser.end
  IN IF p.got = <<>> /\ ch \notin Parser.start THEN {LinkAfter(p, rest, <<>>)}
     ELSE {LinkAfter([p EXCEPT !.got = IF complete THEN <<>> ELSE got], rest, IF complete THEN <<got>> ELSE <<>>)}

BurstStep(ch, rest) ==
  LET whole == <<ch>> \o rest
  IN {LinkAfter(p, <<>>, IF ch \in Parser.open /\ Last(whole) \in Parser.close THEN <<whole>> ELSE <<>>)}

Steps(ch, rest) ==
  CASE Parser.kind = "window" -> WindowStep(ch, rest)
    [] Parser.kind = "counted" -> CountedStep(ch, rest)
    [] Parser.kind = "burst" -> BurstStep(ch, rest)
    [] Parser.kind = "framed" ->
         LET r == Parser.rows[p.row]
         IN CASE r.row = "head" -> HeadStep(r, ch, rest)
              [] r.row = "body" -> BodyStep(r, ch, rest)
              [] r.row = "text" -> TextStep(r, ch, rest)

\* One round of the loop of MT_UartProcessZToolData.
MT_UartProcessZToolData ==
  /\ avail # <<>>
  /\ \E s \in Steps(Head(avail), Tail(avail)) :
       p' = s.p /\ avail' = s.rest /\ out' = out \o s.said
  /\ UNCHANGED <<sensor, line, clean, pauses, sent>>

LinkNext == Arrive \/ MT_UartProcessZToolData
LinkSpec == LinkInit /\ [][LinkNext]_linkVars

-----------------------------------------------------------------------------
(* Properties.                                                             *)

Says(n) == [i \in 1 .. n |-> Frames[i].says]
Consumed == sent - Len(avail)
EndOf(i) == Len(OctetsOf(SubSeq(Frames, 1, i)))
Complete == Cardinality({i \in DOMAIN Frames : EndOf(i) <= Consumed})

\* Parsers that hear a frame or not as its octets happen to come.
CutShort == {"0x7C", "0x73", "UHF A", "0x87"}
\* Parsers that take octets of the next frame for this one, or throw them away.
NeedsPause == {"0x85", "0x86", "FT_AT", "NB OK", "NB IMEI", "NB attached", "NB socket", "NB notice", "NB down"}

\* Whatever pieces the octets come in, each frame is heard as soon as it is
\* complete, once, in order, and as it was sent.
HeardAsSent == (clean /\ sensor \notin CutShort /\ (sensor \in NeedsPause => pauses)) => out = Says(Complete)

\* Parsers that do not find the beginning of a frame again: those that count
\* octets, one whose index stays at the end of its array, and one that reads
\* for ever once it has read too much.
OutOfStep == {"G", "0x79", "RFID125K", "0x72", "0x86"}

\* After noise or a lost octet the parser finds the beginning of a frame
\* again: the last frame is heard as it was sent.
InStepAgain ==
  (Consumed = Len(line) /\ pauses /\ sensor \notin CutShort \cup OutOfStep) =>
    out # <<>> /\ Last(out) = Last(Frames).says
=============================================================================

------------------------------ MODULE MCStores ------------------------------
(***************************************************************************)
(* What keeps data: the clock, the heap, the non-volatile store, the link  *)
(* keys, the serial parsers of the sensors and the simple API's bindings.  *)
(* A behaviour is one of these components against all that may happen to   *)
(* it; the others stay as they were initialised.                           *)
(*                                                                         *)
(* The clock is updated after gaps at and around every threshold of the    *)
(* conversion.  The heap has twenty-one bytes, its bucket room for two     *)
(* small blocks.  The store has three pages of two slots, one of them the  *)
(* reserve, and two items: every third write compacts a page, its own or   *)
(* another one's.                                                          *)
(***************************************************************************)
EXTENDS OsalClock, OsalMemory, OsalNv, ZdLinkKeys, SensorLink, Sapi

CONSTANTS hotId, coldId, v1, v2

Short == {1, 2, 3, 25, 3125, 3126, MAXCALCTICKS - 1, MAXCALCTICKS,
          MAXCALCTICKS + 1, 2 * MAXCALCTICKS, 3 * MAXCALCTICKS - 1}

MCItem  == {hotId, coldId}
MCHot   == {hotId}
MCValue == {v1, v2}

MCSensors == DOMAIN Sensors
MCOffers  == [c \in {"c1", "c2"} |-> IF c = "c1" THEN {"d1", "d2"} ELSE {"d2"}]

VARIABLE part    \* the component that runs

MCvars == <<part, vars, heapVars, nvVars, keysVars, linkVars, sapiVars>>

Clock(A)  == part = "clock" /\ A /\ UNCHANGED <<part, heapVars, nvVars, keysVars, linkVars, sapiVars>>
Heaps(A)  == part = "heap" /\ A /\ UNCHANGED <<part, vars, nvVars, keysVars, linkVars, sapiVars>>
Nv(A)     == part = "nv" /\ A /\ UNCHANGED <<part, vars, heapVars, keysVars, linkVars, sapiVars>>
Keys(A)   == part = "keys" /\ A /\ UNCHANGED <<part, vars, heapVars, nvVars, linkVars, sapiVars>>
Serial(A) == part = "serial" /\ A /\ UNCHANGED <<part, vars, heapVars, nvVars, keysVars, sapiVars>>
Simple(A) == part = "sapi" /\ A /\ UNCHANGED <<part, vars, heapVars, nvVars, keysVars, linkVars>>

\* The sensor, and what is on its line, are open only for the parsers; how many
\* calls there are and how many frames, only for the keys.
MCInit ==
    /\ part \in {"clock", "heap", "nv", "keys", "serial", "sapi"}
    /\ Init /\ HeapInit /\ NvInit /\ KeysInit /\ LinkInit /\ SapiInit
    /\ part # "keys" => calls = MaxCalls
    /\ part # "serial" => sensor = "0x70" /\ clean /\ ~pauses

MCNext ==
    \/ Clock(Next) \/ Heaps(HeapNext) \/ Nv(NvNext)
    \/ Keys(KeysNext) \/ Serial(LinkNext) \/ Simple(SapiNext)

MCSpec == MCInit /\ [][MCNext]_MCvars

-----------------------------------------------------------------------------
\* The store: typed, one valid copy of each item, the reserve ready, the
\* counters in RAM those of the flash; and through every power failure the
\* flash is the promised store: the refinement StoreSpec, looked at where it
\* is the store that runs.
NvStores ==
    /\ [](part = "nv" => NvTypeOK /\ OneCopy /\ ReserveReady /\ CountersAgree)
    /\ part = "nv" => Store!Init
    /\ [][part = "nv" => [Store!Next]_(Store!storeVars)]_MCvars

\* The parsers: what was sent is heard, and after noise they are in step again.
LinkSound == part = "serial" => HeardAsSent /\ InStepAgain
=============================================================================

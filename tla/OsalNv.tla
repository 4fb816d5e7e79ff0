------------------------------- MODULE OsalNv -------------------------------
(***************************************************************************)
(* The non-volatile memory of OSAL (Components/osal/mcu/cc2530/OSAL_Nv.c): *)
(* items in flash pages that are erased as a whole and otherwise only      *)
(* written once.  A new value goes into a new copy of the item, the old    *)
(* copy is zeroed last; a page full of zeroed copies is compacted onto the *)
(* one page that is kept in reserve.  Power may fail between any two flash *)
(* operations, and osal_nv_init must then find its way back.               *)
(*                                                                         *)
(* All items have the same size here: a page is a row of slots.  A call    *)
(* is the sequence of flash operations it still has to perform (todo); one *)
(* step performs one operation.                                            *)
(***************************************************************************)
EXTENDS Naturals, Sequences, SequencesExt, FiniteSets

CONSTANTS
    Pages,       \* OSAL_NV_PAGES_USED
    Slots,       \* items that fit into a page
    Item,        \* item ids
    Hot,         \* the ids of hotIds
    Value,       \* contents of an item
    MaxFaults,   \* bound: flash writes that have no effect
    FaultOps,    \* the flash operations that may fail that way
    Failures     \* the kinds of failure that may happen, see failed

CONSTANTS ERASED, ZEROED, BAD, None

Page == 1 .. Pages
Slot == 1 .. Slots
Loc  == Page \X Slot

ASSUME PagesAssumption  == Pages \in Nat \ {0, 1} /\ Slots \in Nat \ {0}
ASSUME HotAssumption    == Hot \subseteq Item
ASSUME FaultAssumption  == MaxFaults \in Nat /\ Failures \subseteq {"power", "tear", "write"}
ASSUME FaultOpsAssumption == FaultOps \subseteq {"header", "fill", "old", "zero", "use", "xfer"}

OSAL_NV_PAGE_NULL == 0
OSAL_NV_ITEM_NULL == <<>>    \* no location

VARIABLES
    flash,       \* the pages: header and slots
    pgRes,       \* the page held in reserve
    pgOff,       \* pgOff[p]: the first slot of page p believed to be erased
    pgLost,      \* pgLost[p]: zeroed slots of page p
    hot,         \* hotPg, hotOff: where the hot items are
    todo,        \* flash operations the call in progress has still to do
    giveUp,      \* operations it does instead if its new copy does not verify
    mode,        \* "idle", "call", or a stage of osal_nv_init
    call,        \* history: the call in progress, or cut short by a reset
    before,      \* history: what the items read as before it
    faults,      \* faults still to come, see MaxFaults
    failed       \* history: what has failed so far, see Failed

ramVars == <<pgRes, pgOff, pgLost, hot>>
jobVars == <<todo, giveUp, mode, call, before>>
failures == <<faults, failed>>
nvVars     == <<flash, ramVars, jobVars, failures>>

\* Nothing; power; power during an erase that then left half a page header;
\* or a flash write.  Bound: a behaviour has flash writes that fail or power
\* failures, not both.
Failed == {"no", "power", "tear", "write"}

\* A copy of an item.  val is BAD while the checksum does not match; old is
\* the stat word that eNvXfer clears.
Copy   == [id : Item \cup {ERASED, ZEROED}, old : BOOLEAN, val : Value \cup {BAD}]
Blank  == [id |-> ERASED, old |-> FALSE, val |-> BAD]

\* The header: inUse is the active word cleared, xfer the xfer word cleared.
FlashPage == [inUse : BOOLEAN, xfer : BOOLEAN, slot : [Slot -> Copy]]
Clean     == [inUse |-> FALSE, xfer |-> FALSE, slot |-> [k \in Slot |-> Blank]]

At(fl, l) == fl[l[1]].slot[l[2]]

-----------------------------------------------------------------------------
(* Looking at the flash. *)

\* initPage stops at the first erased slot.
FirstErased(fl, p) ==
    CHOOSE k \in 1 .. Slots + 1 :
        /\ k \in Slot => fl[p].slot[k].id = ERASED
        /\ \A j \in 1 .. k - 1 : fl[p].slot[j].id # ERASED

Lost(fl, p) ==
    Cardinality({k \in 1 .. FirstErased(fl, p) - 1 : fl[p].slot[k].id = ZEROED})

\* The copies initPage visits, in its order, over all pages.
Scan(fl) ==
    SelectSeq([i \in 1 .. Pages * Slots |-> <<1 + ((i - 1) \div Slots), 1 + ((i - 1) % Slots)>>],
              LAMBDA l : l[2] < FirstErased(fl, l[1]))

\* The first copy of item id that initPage would find, current or old.
FindAs(fl, id, old) ==
    LET found == SelectSeq(Scan(fl), LAMBDA l : At(fl, l).id = id /\ At(fl, l).old = old)
    IN  IF found # <<>> THEN Head(found) ELSE OSAL_NV_ITEM_NULL

\* findItem: the current copy, or the old one of an interrupted write.
findItem(fl, id) ==
    IF FindAs(fl, id, FALSE) # OSAL_NV_ITEM_NULL THEN FindAs(fl, id, FALSE)
                                                 ELSE FindAs(fl, id, TRUE)

\* osal_nv_read: hot items by their recorded place.
Read(id) ==
    LET l == IF id \in Hot /\ hot[id] # OSAL_NV_ITEM_NULL THEN hot[id] ELSE findItem(flash, id)
    IN  IF l = OSAL_NV_ITEM_NULL THEN None ELSE At(flash, l).val

Reads == [id \in Item |-> Read(id)]

-----------------------------------------------------------------------------
(* The flash operations a call consists of. *)

Header(l, id) == [do |-> "header", loc |-> l, id |-> id]  \* writeWord of id and len
Fill(l, v)    == [do |-> "fill",   loc |-> l, val |-> v]  \* data, then setChk
Old(l)        == [do |-> "old",    loc |-> l]             \* setItem(eNvXfer)
Zero(l)       == [do |-> "zero",   loc |-> l]             \* setItem(eNvZero)
Use(p)        == [do |-> "use",    page |-> p]            \* setPageUse(TRUE)
Xfer(p)       == [do |-> "xfer",   page |-> p]            \* header word OSAL_NV_PG_XFER
Erase(p)      == [do |-> "erase",  page |-> p]            \* erasePage
Retire(p)     == [do |-> "retire", page |-> p]            \* erasePage, pgRes = p

MarkOld(fl, l) == IF At(fl, l).old THEN <<>> ELSE <<Old(l)>>

\* COMPACT_PAGE_CLEANUP
Cleanup(res, p) == <<Use(res), Retire(p)>>

\* compactPage: the valid copies of page p, except those of item skip, are
\* marked and copied to the reserve page, which must be clean.
Kept(fl, p, skip) ==
    SelectSeq([k \in 1 .. FirstErased(fl, p) - 1 |-> <<p, k>>],
              LAMBDA l : At(fl, l).id \notin {ZEROED, skip} /\ At(fl, l).val # BAD)

Compact(fl, p, res, skip) ==
    LET kept == Kept(fl, p, skip)
    IN  FlattenSeq([k \in 1 .. Len(kept) |->
            MarkOld(fl, kept[k]) \o <<Header(<<res, k>>, At(fl, kept[k]).id),
                                      Fill(<<res, k>>, At(fl, kept[k]).val)>>])

-----------------------------------------------------------------------------
NvTypeOK ==
    /\ flash \in [Page -> FlashPage]
    /\ pgRes \in Page \cup {OSAL_NV_PAGE_NULL}
    /\ pgOff \in [Page -> 1 .. Slots + 1]
    /\ pgLost \in [Page -> 0 .. Slots]
    /\ hot \in [Hot -> Loc \cup {OSAL_NV_ITEM_NULL}]
    /\ mode \in {"idle", "call", "scan", "repair", "zero"}
    /\ call \in [id : Item, val : Value] \cup {None}
    /\ before \in [Item -> Value \cup {None}]
    /\ faults \in 0 .. MaxFaults
    /\ failed \in Failed

\* A new device: the flash is erased and osal_nv_init is about to run.
NvInit ==
    /\ flash = [p \in Page |-> Clean]
    /\ pgRes = OSAL_NV_PAGE_NULL
    /\ pgOff = [p \in Page |-> 1]
    /\ pgLost = [p \in Page |-> 0]
    /\ hot = [id \in Hot |-> OSAL_NV_ITEM_NULL]
    /\ todo = <<>> /\ giveUp = <<>>
    /\ mode = "scan"
    /\ call = None
    /\ before = [id \in Item |-> None]
    /\ faults = MaxFaults /\ failed = "no"

-----------------------------------------------------------------------------
(* osal_nv_init, in the stages of initNV. *)

PagesWhere(Test(_)) == SelectSeq([p \in Page |-> p], Test)

\* Mutant: a reserve page that looks erased is taken for erased.
RecoverTrusting(res, oldPg) ==
    IF oldPg = OSAL_NV_PAGE_NULL THEN <<>>
    ELSE IF res = OSAL_NV_PAGE_NULL THEN <<Retire(oldPg)>>
    ELSE <<Erase(res)>> \o Compact(flash, oldPg, res, ERASED) \o Cleanup(res, oldPg)

\* What is done about reserve page res and interrupted compaction of oldPg.
Recover(res, oldPg) ==
    IF oldPg = OSAL_NV_PAGE_NULL
    THEN IF res = OSAL_NV_PAGE_NULL THEN <<>> ELSE <<Erase(res)>>
    ELSE IF res = OSAL_NV_PAGE_NULL THEN <<Retire(oldPg)>>
    ELSE <<Erase(res)>> \o Compact(flash, oldPg, res, ERASED) \o Cleanup(res, oldPg)

\* Look at the page headers; redo or finish an interrupted compaction.
InitScan ==
    /\ mode = "scan"
    /\ LET unused == PagesWhere(LAMBDA p : ~ flash[p].inUse)
           moving == PagesWhere(LAMBDA p : flash[p].inUse /\ flash[p].xfer)
           res    == IF unused = <<>> THEN OSAL_NV_PAGE_NULL ELSE Head(unused)
           oldPg  == IF moving = <<>> THEN OSAL_NV_PAGE_NULL ELSE Last(moving)
           inUse  == [i \in 1 .. Len(unused) - 1 |-> Use(unused[i + 1])]
       IN
       /\ pgRes' = res
       /\ todo' = inUse \o Recover(res, oldPg)
       /\ giveUp' = <<Erase(res)>>
    /\ mode' = "repair"
    /\ UNCHANGED <<flash, pgOff, pgLost, hot, call, before, failures>>

\* initPage over all pages: zero what does not verify; if an old copy is met,
\* start over and zero the old copy of every item that has a current one.
Unverified(l) == At(flash, l).id # ZEROED /\ At(flash, l).val = BAD
Verified(l)   == At(flash, l).id # ZEROED /\ At(flash, l).val # BAD

Duplicate(l) ==
    IF Verified(l) /\ ~ At(flash, l).old THEN FindAs(flash, At(flash, l).id, TRUE)
                                         ELSE OSAL_NV_ITEM_NULL

\* Mutant: no search for duplicates.
ZeroesUnverified ==
    LET bad == SelectSeq(Scan(flash), Unverified) IN [i \in 1 .. Len(bad) |-> Zero(bad[i])]

Zeroes ==
    LET s      == Scan(flash)
        olds   == {i \in 1 .. Len(s) : Verified(s[i]) /\ At(flash, s[i]).old}
        stop   == IF olds = {} THEN Len(s) ELSE CHOOSE i \in olds : \A j \in olds : i <= j
        pass1  == SelectSeq(SubSeq(s, 1, stop), Unverified)
        second(l) == IF Unverified(l) /\ ~ Contains(pass1, l) THEN <<Zero(l)>>
                     ELSE IF Duplicate(l) # OSAL_NV_ITEM_NULL THEN <<Zero(Duplicate(l))>>
                     ELSE <<>>
    IN  [i \in 1 .. Len(pass1) |-> Zero(pass1[i])] \o
        IF olds = {} THEN <<>> ELSE FlattenSeq([i \in 1 .. Len(s) |-> second(s[i])])

InitPages ==
    /\ mode = "repair" /\ todo = <<>>
    /\ todo' = Zeroes
    /\ mode' = "zero"
    /\ UNCHANGED <<flash, ramVars, giveUp, call, before, failures>>

\* No reserve page was found: erase the one that lost the most.
InitReserve ==
    /\ mode = "zero" /\ todo = <<>> /\ pgRes = OSAL_NV_PAGE_NULL
    /\ \E p \in Page :
         /\ \A q \in Page : \/ Lost(flash, q) < Lost(flash, p)
                            \/ Lost(flash, q) = Lost(flash, p) /\ p <= q
         /\ pgRes' = p
         /\ todo' = <<Erase(p)>>
    /\ UNCHANGED <<flash, pgOff, pgLost, hot, giveUp, mode, call, before, failures>>

InitDone ==
    /\ mode = "zero" /\ todo = <<>> /\ pgRes # OSAL_NV_PAGE_NULL
    /\ pgOff' = [p \in Page |-> FirstErased(flash, p)]
    /\ pgLost' = [p \in Page |-> Lost(flash, p)]
    /\ mode' = "idle" /\ call' = None /\ giveUp' = <<>>
    /\ UNCHANGED <<flash, pgRes, hot, todo, before, failures>>

-----------------------------------------------------------------------------
(* The calls. *)

\* findItem recounts every page it looks through in vain.
Passed(id) ==
    LET l == FindAs(flash, id, FALSE) IN
    IF l = OSAL_NV_ITEM_NULL THEN Page ELSE 1 .. l[1] - 1
Off(id)     == [p \in Page |-> IF p \in Passed(id) THEN FirstErased(flash, p) ELSE pgOff[p]]
LostIn(id)  == [p \in Page |-> IF p \in Passed(id) THEN Lost(flash, p) ELSE pgLost[p]]

\* initItem: the first page after the reserve page with room for the item,
\* zeroed slots included; NULL if there is none.
PageFor(id) ==
    LET cyclic == [i \in 1 .. Pages |-> 1 + ((pgRes + i - 1) % Pages)]
        roomy  == SelectSeq(cyclic, LAMBDA p : p # pgRes /\ Slots + 1 - Off(id)[p] + LostIn(id)[p] >= 1)
    IN  IF roomy = <<>> THEN OSAL_NV_PAGE_NULL ELSE Head(roomy)

\* Mutant: the old copy is zeroed before the compacted page is cleaned up.
EndingZeroFirst(com, zero) ==
    zero \o IF com = OSAL_NV_PAGE_NULL THEN <<>> ELSE Cleanup(pgRes, com)

\* "Zero of the old item must wait until after compact page cleanup has finished"
Ending(com, zero) ==
    (IF com = OSAL_NV_PAGE_NULL THEN <<>> ELSE Cleanup(pgRes, com)) \o zero

\* initItem and what follows it in its callers.  new[dst] are the operations
\* that write the new copy of item id to dst, src is its old copy, if any.
Put(id, v, src, new) ==
    LET p    == PageFor(id)
        com  == IF Off(id)[p] > Slots THEN p ELSE OSAL_NV_PAGE_NULL
        mark == IF flash[p].xfer THEN <<>> ELSE <<Xfer(p)>>
        dst  == IF com = OSAL_NV_PAGE_NULL THEN <<p, Off(id)[p]>>
                                           ELSE <<pgRes, 1 + Len(Kept(flash, p, id))>>
        zero == IF src = OSAL_NV_ITEM_NULL THEN <<>> ELSE IF src[1] = com THEN <<>> ELSE <<Zero(src)>>
    IN
    /\ p # OSAL_NV_PAGE_NULL
    /\ mode' = "call" /\ before' = Reads
    /\ IF com = OSAL_NV_PAGE_NULL
       THEN /\ todo' = new[dst] \o Ending(com, zero)
            /\ giveUp' = <<>>
            /\ call' = [id |-> id, val |-> v]
       ELSE IF flash[pgRes].slot # Clean.slot
       THEN todo' = mark \o <<Erase(pgRes)>> /\ giveUp' = <<>> /\ call' = None
       ELSE /\ todo' = mark \o Compact(flash, com, pgRes, id) \o new[dst] \o Ending(com, zero)
            /\ giveUp' = IF src # OSAL_NV_ITEM_NULL /\ zero = <<>> THEN <<Erase(pgRes)>>
                                                               ELSE Cleanup(pgRes, com)
            /\ call' = [id |-> id, val |-> v]

\* Bound: after a torn header the model follows osal_nv_init only.
Callable == mode = "idle" /\ failed # "tear"

\* osal_nv_write of an item that is there and reads differently.
Write(id, v) ==
    LET src == findItem(flash, id)
        new == [dst \in Loc |-> <<Header(dst, id)>> \o MarkOld(flash, src) \o <<Fill(dst, v)>>]
    IN
    /\ Callable
    /\ src # OSAL_NV_ITEM_NULL /\ At(flash, src).val # v
    /\ Put(id, v, src, new)
    /\ pgOff' = Off(id) /\ pgLost' = LostIn(id)
    /\ UNCHANGED <<flash, pgRes, hot, failures>>

\* osal_nv_item_init of an item that is not there yet ...
ItemInit(id, v) ==
    LET new == [dst \in Loc |-> <<Header(dst, id), Fill(dst, v)>>] IN
    /\ Callable
    /\ findItem(flash, id) = OSAL_NV_ITEM_NULL
    /\ Put(id, v, OSAL_NV_ITEM_NULL, new)
    /\ pgOff' = Off(id) /\ pgLost' = LostIn(id)
    /\ UNCHANGED <<flash, pgRes, hot, failures>>

\* ... and of one that is: hotItemUpdate.
ItemKnown(id) ==
    /\ Callable
    /\ id \in Hot
    /\ findItem(flash, id) # OSAL_NV_ITEM_NULL
    /\ hot' = [hot EXCEPT ![id] = findItem(flash, id)]
    /\ pgOff' = Off(id) /\ pgLost' = LostIn(id)
    /\ UNCHANGED <<flash, pgRes, jobVars, failures>>

Return ==
    /\ mode = "call" /\ todo = <<>>
    /\ mode' = "idle" /\ call' = None /\ giveUp' = <<>>
    /\ UNCHANGED <<flash, ramVars, todo, before, failures>>

-----------------------------------------------------------------------------
(* One flash operation, and the RAM that goes with it. *)

Do(what) == todo # <<>> /\ Head(todo).do = what /\ todo' = Tail(todo)
Op       == Head(todo)
Job      == <<giveUp, mode, call, before, failures>>

SetCopy(l, c) == flash' = [flash EXCEPT ![l[1]].slot[l[2]] = c]

\* writeItem up to the header's verification; the slot must be erased.
DoHeader ==
    /\ Do("header")
    /\ At(flash, Op.loc) = Blank
    /\ SetCopy(Op.loc, [Blank EXCEPT !.id = Op.id])
    /\ pgOff' = [pgOff EXCEPT ![Op.loc[1]] = @ + 1]
    /\ UNCHANGED <<pgRes, pgLost, hot, Job>>

\* Data and checksum; then hotItemUpdate.
DoFill ==
    /\ Do("fill")
    /\ SetCopy(Op.loc, [At(flash, Op.loc) EXCEPT !.val = Op.val])
    /\ hot' = [id \in Hot |-> IF id = At(flash, Op.loc).id THEN Op.loc ELSE hot[id]]
    /\ UNCHANGED <<pgRes, pgOff, pgLost, Job>>

DoOld ==
    /\ Do("old")
    /\ SetCopy(Op.loc, [At(flash, Op.loc) EXCEPT !.old = TRUE])
    /\ UNCHANGED <<ramVars, Job>>

\* Mutant: the lost space is not counted.
DoZeroUncounted ==
    /\ Do("zero")
    /\ SetCopy(Op.loc, [At(flash, Op.loc) EXCEPT !.id = ZEROED])
    /\ UNCHANGED <<ramVars, Job>>

DoZero ==
    /\ Do("zero")
    /\ SetCopy(Op.loc, [At(flash, Op.loc) EXCEPT !.id = ZEROED])
    /\ pgLost' = [pgLost EXCEPT ![Op.loc[1]] = @ + 1]
    /\ UNCHANGED <<pgRes, pgOff, hot, Job>>

DoHeaderWord ==
    /\ \/ Do("use")  /\ flash' = [flash EXCEPT ![Op.page].inUse = TRUE]
       \/ Do("xfer") /\ flash' = [flash EXCEPT ![Op.page].xfer = TRUE]
    /\ UNCHANGED <<ramVars, Job>>

\* Mutant: the lost space of the page is not reset.
DoEraseStillLost ==
    /\ \/ Do("erase")  /\ UNCHANGED pgRes
       \/ Do("retire") /\ pgRes' = Op.page
    /\ flash' = [flash EXCEPT ![Op.page] = Clean]
    /\ pgOff' = [pgOff EXCEPT ![Op.page] = 1]
    /\ UNCHANGED <<pgLost, hot, Job>>

DoErase ==
    /\ \/ Do("erase")  /\ UNCHANGED pgRes
       \/ Do("retire") /\ pgRes' = Op.page
    /\ flash' = [flash EXCEPT ![Op.page] = Clean]
    /\ pgOff' = [pgOff EXCEPT ![Op.page] = 1]
    /\ pgLost' = [pgLost EXCEPT ![Op.page] = 0]
    /\ UNCHANGED <<hot, Job>>

\* A header or data that does not read back: the compaction is given up, or
\* the new copy.  The offset advances and the space counts as lost.
NotVerified ==
    LET id     == IF Op.do = "header" THEN Op.id ELSE At(flash, Op.loc).id
        ofCall == mode = "call" /\ call # None /\ id = call.id
    IN
    /\ todo' = IF ofCall THEN giveUp ELSE <<Erase(pgRes)>>
    /\ call' = IF mode = "call" THEN None ELSE call
    /\ IF Op.do = "header"
       THEN /\ pgOff'  = [pgOff  EXCEPT ![Op.loc[1]] = @ + 1]
            /\ pgLost' = [pgLost EXCEPT ![Op.loc[1]] = @ + 1]
       ELSE UNCHANGED <<pgOff, pgLost>>
    /\ UNCHANGED <<pgRes, hot, giveUp, mode, before>>

\* A HalFlashWrite that does not take.  Marks and page headers are not read back.
Fault ==
    /\ "write" \in Failures /\ failed \in {"no", "write"} /\ failed' = "write"
    /\ todo # <<>> /\ faults > 0 /\ faults' = faults - 1
    /\ Op.do \in FaultOps
    /\ IF Op.do \in {"header", "fill"} THEN NotVerified
       ELSE /\ todo' = Tail(todo)
            /\ UNCHANGED <<ramVars, giveUp, mode, call, before>>
    /\ UNCHANGED flash

\* What an interrupted erase may leave of page c.
Torn(c) ==
    {[inUse |-> u, xfer |-> x, slot |-> [k \in Slot |-> IF k \in S THEN c.slot[k] ELSE Blank]] :
        u \in {FALSE, c.inUse}, x \in {FALSE, c.xfer}, S \in SUBSET Slot}

HeaderWhole(c, t) == {t.inUse, t.xfer} = {FALSE} \/ (t.inUse = c.inUse /\ t.xfer = c.xfer)

\* An interrupted erase clears the header words together, or one by one.
EraseCut(kind) ==
    /\ todo # <<>> /\ Op.do \in {"erase", "retire"}
    /\ \E t \in Torn(flash[Op.page]) :
         /\ kind = "tear" <=> ~HeaderWhole(flash[Op.page], t)
         /\ flash' = [flash EXCEPT ![Op.page] = t]

\* Power fails, between two flash operations or during an erase.
PowerFailure ==
    /\ failed # "write"
    /\ \E kind \in Failures \cap {"power", "tear"} :
         /\ (kind = "power" /\ UNCHANGED flash) \/ EraseCut(kind)
         /\ failed' = IF failed = "tear" THEN failed ELSE kind
    /\ mode' = "scan"
    /\ pgRes' = OSAL_NV_PAGE_NULL
    /\ pgOff' = [p \in Page |-> 1] /\ pgLost' = [p \in Page |-> 0]
    /\ hot' = [id \in Hot |-> OSAL_NV_ITEM_NULL]
    /\ todo' = <<>> /\ giveUp' = <<>>
    /\ before' = IF mode = "idle" THEN Reads ELSE before
    /\ UNCHANGED <<call, faults>>

-----------------------------------------------------------------------------
Initialise == InitScan \/ InitPages \/ InitReserve \/ InitDone
Call       == \E id \in Item : ItemKnown(id) \/ \E v \in Value : Write(id, v) \/ ItemInit(id, v)
Flash      == DoHeader \/ DoFill \/ DoOld \/ DoZero \/ DoHeaderWord \/ DoErase

NvNext == Initialise \/ Call \/ Return \/ Flash \/ Fault \/ PowerFailure

NvSpec == NvInit /\ [][NvNext]_nvVars

-----------------------------------------------------------------------------
(* Properties. *)

\* Between calls an item has one copy: a forgotten one would come back as a
\* lost update after the next write.
OneCopy ==
    mode = "idle" /\ failed # "tear" =>
        \A l, m \in {Scan(flash)[i] : i \in 1 .. Len(Scan(flash))} :
            At(flash, l).id = At(flash, m).id /\ At(flash, l).id \in Item => l = m

\* Between calls the reserve page is erased, and it is the only page out of
\* use: compactPage and initNV start from this.  It holds after torn headers
\* too, but not if the mark of a page in use was not written.
ReserveReady ==
    mode = "idle" /\ failed # "write" =>
        /\ flash[pgRes] = Clean
        /\ \A p \in Page \ {pgRes} : flash[p].inUse /\ ~ flash[p].xfer

\* Between calls the counters in RAM say what is in the flash.
CountersAgree ==
    mode = "idle" /\ failed # "tear" =>
        \A p \in Page : pgOff[p] = FirstErased(flash, p) /\ pgLost[p] = Lost(flash, p)

\* "the last value written with a return value of SUCCESS can continue to be
\* read successfully" (OSAL_Nv.c, on failing flash writes): a call that is
\* about to return NV_OPER_FAILED leaves what the items read as.
FailureKeepsItems ==
    mode = "call" /\ todo = <<>> /\ call = None =>
        \A id \in Item : before[id] # None => Read(id) = before[id]

\* What the service promises, see NvStore.
Store == INSTANCE NvStore WITH
    store <- IF mode = "idle" THEN Reads ELSE before,
    call  <- call,
    cut   <- mode \notin {"idle", "call"},
    torn  <- failed = "tear"

StoreSpec == Store!Spec
=============================================================================

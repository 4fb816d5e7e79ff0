-------------------------------- MODULE MtRpc --------------------------------
(***************************************************************************)
(* Monitor and test: a host on the serial line asks the stack for things.  *)
(* A request is a record m: its type (SREQ waits for an answer, AREQ does  *)
(* not), the subsystem, the command id and the data octets, and beside     *)
(* them what the handler meets: whether the transport (m.room) and the     *)
(* heap (m.memory) have memory left, what the function it calls returns    *)
(* (m.returns), the octets the stack holds of what is asked for (m.item,   *)
(* none when there is nothing) and the options it was built with (m.build).*)
(* What a handler does is the sequence of its steps: calls into the stack  *)
(* and frames to the host, in the order of the code.                       *)
(***************************************************************************)
EXTENDS Layouts

MT_RPC_DATA_MAX == 250
MT_RPC_SUCCESS == 0
MT_RPC_ERR_SUBSYSTEM == 1
MT_RPC_ERR_COMMAND_ID == 2
MT_RPC_ERR_LENGTH == 4
Z_EXTADDR_LEN == 8
SEC_KEY_LEN == 16
ZTEST_DEFAULT_DATA_LEN == 102
ZTEST_DEFAULT_SEC_LEN == 11

ZSuccess == 0
ZFailure == 1
ZInvalidParameter == 2
ZMemError == 16
ZUnsupportedMode == 18
ZApsDuplicateEntry == 184
ZApsIllegalRequest == 179

NotHere == <<>>

-----------------------------------------------------------------------------
(* Steps.                                                                  *)

Called(fn, fields) == <<[is |-> "call", fn |-> fn, fields |-> fields]>>

\* MT_BuildAndSendZToolResponse copies as many octets as its 8-bit length says.
TellsHost(room, type, sys, id, len, octets) ==
    IF room
    THEN <<[is |-> "frame", type |-> type, sys |-> sys, id |-> id,
            octets |-> Slice(octets, 1, len % 256)]>>
    ELSE <<>>

AnswersWith(m, len, octets) == TellsHost(m.room, "SRSP", m.sys, m.id, len, octets)
RpcAnswers(m, octets) == AnswersWith(m, Len(octets), octets)
Indicates(w, sys, id, octets) == TellsHost(w.room, "AREQ", sys, id, Len(octets), octets)

\* The handler that picks the parameters of one function out of the frame,
\* calls it and answers with the octet it returned.
Asks(m, fn, layout) == Called(fn, Picked(layout, m.octets)) \o RpcAnswers(m, <<m.returns>>)
Field(m, layout, name) == Picked(layout, m.octets)[name]

\* A handler of a function that the build leaves out.
AsksIf(built, m, fn, layout) ==
    IF built THEN Asks(m, fn, layout) ELSE RpcAnswers(m, <<ZUnsupportedMode>>)

Zeros(n) == [i \in 1 .. n |-> 0]
Ones(n) == [i \in 1 .. n |-> 255]
Unset(n) == [i \in 1 .. n |-> Junk]
MT_ReverseBytes(octets) == Reverse(octets)

-----------------------------------------------------------------------------
(* What a subsystem makes of a request: whether it knows the command, and  *)
(* the steps of its handler.                                               *)

RpcDone(steps) == [status |-> MT_RPC_SUCCESS, steps |-> steps]
UnknownCommand == [status |-> MT_RPC_ERR_COMMAND_ID, steps |-> <<>>]

\* Mutant: a request that wants no answer is told of its error.
MT_ErrorResponseAlways(m, status) ==
    IF status # MT_RPC_SUCCESS THEN TellsHost(m.room, "SRSP", "RES0", "0", 3, <<status, m.sys, m.id>>) ELSE <<>>

MT_ErrorResponse(m, status) ==
    IF status # MT_RPC_SUCCESS /\ m.type = "SREQ"
    THEN TellsHost(m.room, "SRSP", "RES0", "0", 3, <<status, m.sys, m.id>>)
    ELSE <<>>

MT_ProcessIncoming(m, Subsystems, Processing(_)) ==
    LET answered(done) == done.steps \o MT_ErrorResponse(m, done.status)
    IN  IF m.len > MT_RPC_DATA_MAX THEN MT_ErrorResponse(m, MT_RPC_ERR_LENGTH)
        ELSE IF m.sys \notin Subsystems THEN MT_ErrorResponse(m, MT_RPC_ERR_SUBSYSTEM)
        ELSE answered(Processing(m))

-----------------------------------------------------------------------------
(* The description of an end point that a host registers.  m.known is the  *)
(* set of end points there are; m.memory = "first" gives memory for the    *)
(* descriptor and the first list only.                                     *)

EndPointLayout ==
    <<U8("endPoint"), U16("profile"), U16("device"), U8("version"), U8("latency"),
      Counted("inClusters", 2), Counted("outClusters", 2)>>

MT_BuildEndpointDesc(m, layout) ==
    LET desc == Picked(layout, m.octets)
    IN  IF desc.endPoint[1] \in m.known THEN [status |-> ZApsDuplicateEntry, desc |-> desc]
        ELSE [status |-> IF m.memory THEN ZSuccess ELSE ZMemError, desc |-> desc]

\* MTProcessAppRspMsg: an application answers for MT.
MTProcessAppRspMsg(w) == TellsHost(w.room, "SRSP", "APP", "APP_RSP", Len(w.octets), w.octets)
=============================================================================

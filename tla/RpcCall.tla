------------------------------- MODULE RpcCall -------------------------------
(***************************************************************************)
(* One rpc call from the application that makes it to the service and back *)
(* through the code that the interface compiler generates: the client      *)
(* method, the stream handler and the method handler of the server.  They  *)
(* write and read parameters one after the other and share arrays and      *)
(* blobs with the application by counting references; whatever fails, the  *)
(* objects must go and the file of every blob with them.                   *)
(*                                                                         *)
(* The request stream is a stream of bytes in each direction: PacketStream *)
(* shows that packets implement one.  The two sides share nothing but this *)
(* stream, so that the reader may as well begin when the writer is done.   *)
(***************************************************************************)
EXTENDS Blob

CONSTANTS
    Methods,                 \* the methods of the interface, from method_id 0
    Arguments,               \* per method, the lists of arguments it is called with
    ValuesOf,                \* per type, the values that the service answers
    MessageLength,           \* bound on messages of foreign origin
    Readers                  \* fibers that read a blob they have received

ParamTypes == {"uint32", "int32", "uint64", "int64", "char_array",
               "wchar_array", "blob"}

\* the values of a type: those that the serialize functions, create_char_array
\* and create_wchar_array assert
HasType(type, v) ==
    CASE type = "uint32" -> v \in 0 .. 2^WordBits - 1
      [] type = "int32" -> v \in -(2^(WordBits - 1)) .. 2^(WordBits - 1) - 1
      [] type = "uint64" -> v \in 0 .. 2^LongBits - 1
      [] type = "int64" -> v \in -(2^(LongBits - 1)) .. 2^(LongBits - 1) - 1
      [] type = "char_array" -> v \in Seq(Bytes) /\ Len(v) <= MaxArrayLength
      [] type = "wchar_array" -> v \in Seq(0 .. CharLimit - 1) /\ Len(v) <= MaxArrayLength
      [] type = "blob" -> v \in Seq(Bytes) /\ Len(v) < 2^(WordBits - 1)

ASSUME RpcCallAssumption ==
    /\ Methods \in Seq([request : Seq(ParamTypes), response : Seq(ParamTypes)])
    /\ Methods # <<>> /\ Len(Methods) \in Bytes
    /\ MessageLength \in Nat

\* application and service pass values of the types that the interface declares
ASSUME ValuesAssumption ==
    \A m \in DOMAIN Methods :
        /\ \A v \in Arguments[m] : \A n \in DOMAIN Methods[m].request :
             HasType(Methods[m].request[n], v[n])
        /\ \A n \in DOMAIN Methods[m].response :
             \A v \in ValuesOf[Methods[m].response[n]] :
                HasType(Methods[m].response[n], v)

VARIABLES
    phase,                   \* which function is at work
    step,                    \* how far the blob is that it fills
    method_id,               \* the method that is called ...
    served_id,               \* ... and the method_id that the server has read
    i,                       \* the parameter that is next
    wire,                    \* bytes that have been written and not read
    handled,                 \* the method handler has succeeded
    foreign,                 \* a peer has sent something else than this code
    slots,                   \* the parameters in the variables of a function
    arrays,                  \* the character arrays that exist, by name
    answer,                  \* what the service has answered
    result,                  \* result of the client method
    crashed                  \* a NULL pointer has been used

callVars == <<method_id, served_id, foreign, answer>>
vars == <<blobVars, phase, step, i, wire, handled, slots, arrays, result,
          crashed, callVars>>

(***************************************************************************)
(* Frames: args are the arguments of the application, request and response *)
(* the variables of the method handler, received those of the client       *)
(* method and returned the out-parameters of the application.  A slot of a *)
(* frame is an integer, or "NULL", or "set": then it points to the array   *)
(* or the blob named after the frame (received and returned share theirs)  *)
(* and the parameter.                                                      *)
(***************************************************************************)
Frames == {"args", "request", "response", "received", "returned"}
Owner(f) == IF f = "returned" THEN "received" ELSE f

TypesOf(f) ==
    CASE f = "args" -> Methods[method_id + 1].request
      [] f = "request" -> Methods[served_id + 1].request
      [] f = "response" -> Methods[served_id + 1].response
      [] OTHER -> Methods[method_id + 1].response

\* c_is_param_ptr
IsPtr(type) == type \in {"char_array", "wchar_array", "blob"}
Fresh(types) == [n \in DOMAIN types |-> IF IsPtr(types[n]) THEN "NULL" ELSE 0]

IsSet(f, n) == n \in DOMAIN slots[f] /\ IsPtr(TypesOf(f)[n]) /\ slots[f][n] = "set"

\* the value of a parameter
ValueOf(f, n) ==
    LET type == TypesOf(f)[n]  name == <<Owner(f), n>>
    IN  CASE type = "blob" -> disk[Path(name)]
          [] type \in {"char_array", "wchar_array"} -> arrays[name].value
          [] OTHER -> slots[f][n]

Init ==
    /\ BlobInit
    /\ phase = "idle" /\ step = "param"
    /\ method_id = 0 /\ served_id = 0 /\ i = 1
    /\ wire = <<>> /\ handled = FALSE /\ foreign = FALSE
    /\ slots = [f \in Frames |-> <<>>]
    /\ arrays = [a \in {} |-> <<>>]
    /\ answer = <<>>
    /\ result = "none"
    /\ crashed = FALSE

-----------------------------------------------------------------------------
(***************************************************************************)
(* Parameters are written: mrpc_..._serialize.  Arrays and blobs take a    *)
(* reference for the time, and a blob is read through a stream of its own. *)
(***************************************************************************)
Serialize(type, value) ==
    CASE type = "uint32" -> Uint32Serialize(value)
      [] type = "int32" -> Int32Serialize(value)
      [] type = "uint64" -> Uint64Serialize(value)
      [] type = "int64" -> Int64Serialize(value)
      [] type = "char_array" -> CharArraySerialize(value)
      [] type = "wchar_array" -> WcharArraySerialize(value)
      [] type = "blob" -> Uint32Serialize(Len(value)) \o value

Writing == IF phase = "write_request" THEN "args" ELSE "response"

\* All of them have been written or read; an empty list is one byte.
AllDone(f) == i > Max({1} \union DOMAIN TypesOf(f))

\* the loop over the parameters in dump_client_method or in
\* dump_server_method_handler writes one more
WriteParam ==
    /\ phase \in {"write_request", "write_response"}
    /\ i \in DOMAIN TypesOf(Writing)
    /\ wire' = wire \o Serialize(TypesOf(Writing)[i], ValueOf(Writing, i))
    /\ i' = i + 1
    /\ UNCHANGED <<blobVars, phase, step, handled, slots, arrays, result, crashed, callVars>>

-----------------------------------------------------------------------------
(***************************************************************************)
(* Parameters are read: mrpc_..._unserialize                               *)
(***************************************************************************)
Unserialize(type, s) ==
    CASE type = "uint32" -> Uint32Unserialize(s)
      [] type = "int32" -> Int32Unserialize(s)
      [] type = "uint64" -> Uint64Unserialize(s)
      [] type = "int64" -> Int64Unserialize(s)
      [] type = "char_array" -> CharArrayUnserialize(s)
      [] type = "wchar_array" -> WcharArrayUnserialize(s)

Reading ==
    CASE phase = "read_request" -> "request"
      [] phase = "read_response" -> "received"
      [] OTHER -> "response"
Type == TypesOf(Reading)[i]
Name == <<Reading, i>>
NewStream == CHOOSE s \in streams : s.blob = Name

IsReading(where) ==
    /\ phase \in {"read_request", "read_response"}
    /\ i \in DOMAIN TypesOf(Reading)
    /\ step = where

SetSlot(v) ==
    /\ slots' = [slots EXCEPT ![Reading][i] = v]
    /\ i' = i + 1

\* an integer or an array, which is created with one reference
ReadParam ==
    LET r == Unserialize(Type, wire)
    IN  /\ IsReading("param") /\ Type # "blob"
        /\ r.ok
        /\ wire' = r.rest
        /\ IF IsPtr(Type)
           THEN /\ SetSlot("set")
                /\ arrays' = With(arrays, Name, [value |-> r.value, ref_cnt |-> 1])
           ELSE SetSlot(r.value) /\ UNCHANGED arrays
        /\ UNCHANGED <<blobVars, phase, step, handled, result, crashed, callVars>>

\* mrpc_blob_unserialize.  The length is read into an int; if that is
\* negative, the function returns at once, with the result of the read
IsNegative(u_len) == u_len >= 2^(WordBits - 1)

ReadNegativeLength ==
    LET r == Uint32Unserialize(wire)
    IN  /\ IsReading("param") /\ Type = "blob"
        /\ r.ok /\ IsNegative(r.value)
        /\ wire' = r.rest
        /\ i' = i + 1
        /\ UNCHANGED <<blobVars, phase, step, handled, slots, arrays, result, crashed, callVars>>

ReadLength ==
    LET r == Uint32Unserialize(wire)
    IN  /\ IsReading("param") /\ Type = "blob"
        /\ r.ok /\ ~IsNegative(r.value)
        /\ wire' = r.rest
        /\ CreateBlob(Name, r.value)
        /\ step' = "open"
        /\ UNCHANGED <<phase, i, handled, slots, arrays, result, crashed, callVars>>

OpenNewBlob ==
    /\ IsReading("open")
    /\ OpenBlobToWrite(Name)
    /\ step' = "copy"
    /\ UNCHANGED <<phase, i, wire, handled, slots, arrays, result, crashed, callVars>>

\* ff_stream_copy
CopyNewBlob ==
    LET r == TakeBytes(wire, blobs[Name].len)
    IN  /\ IsReading("copy")
        /\ r.ok
        /\ wire' = r.rest
        /\ WriteBlobStream(NewStream, r.value)
        /\ step' = "flush"
        /\ UNCHANGED <<phase, i, handled, slots, arrays, result, crashed, callVars>>

FlushNewBlob ==
    /\ IsReading("flush")
    /\ FlushBlobStream(NewStream)
    /\ step' = "close"
    /\ UNCHANGED <<phase, i, wire, handled, slots, arrays, result, crashed, callVars>>

CloseNewBlob ==
    /\ IsReading("close")
    /\ DeleteBlobStream(NewStream, 0)
    /\ SetSlot("set")
    /\ step' = "param"
    /\ UNCHANGED <<phase, wire, handled, arrays, result, crashed, callVars>>

\* mutant: the new blob is forgotten when its stream cannot be filled
ForgetNewBlob ==
    \/ step = "param" /\ UNCHANGED blobVars
    \/ step = "open" /\ BlobDecRef(Name)
    \/ step \in {"copy", "flush"} /\ DeleteBlobStream(NewStream, 0)

\* the clean-up when a step of mrpc_blob_unserialize fails
DropNewBlob ==
    \/ step = "param" /\ UNCHANGED blobVars
    \/ step = "open" /\ BlobDecRef(Name)
    \/ step \in {"copy", "flush"} /\ DeleteBlobStream(NewStream, 1)

-----------------------------------------------------------------------------
(***************************************************************************)
(* The generated client method                                             *)
(***************************************************************************)

\* The application calls a method.  Its arguments exist before.
Call ==
    /\ phase = "idle"
    /\ \E id \in 0 .. Len(Methods) - 1 :
         LET types == Methods[id + 1].request
             Params(ts) == {n \in DOMAIN types : types[n] \in ts}
         IN  \E v \in Arguments[id + 1] :
                /\ method_id' = id
                /\ slots' = [slots EXCEPT !["args"] =
                      [n \in DOMAIN types |-> IF IsPtr(types[n]) THEN "set" ELSE v[n]]]
                /\ arrays' = [a \in {"args"} \X Params({"char_array", "wchar_array"}) |->
                      [value |-> v[a[2]], ref_cnt |-> 1]]
                /\ blobs' = [b \in {"args"} \X Params({"blob"}) |->
                      [file_path |-> b[2], len |-> Len(v[b[2]]),
                       state |-> "COMPLETE", ref_cnt |-> 1]]
                /\ files' = Max({0} \union Params({"blob"}))
                /\ disk' = [n \in Params({"blob"}) |-> v[n]]
    /\ phase' = "create_stream"
    /\ UNCHANGED <<streams, remaining, step, i, wire, handled, served_id, foreign,
                   answer, result, crashed>>

\* mrpc_client_create_request_stream and the method_id
WriteMethodId ==
    /\ phase = "create_stream"
    /\ wire' = <<method_id>>
    /\ phase' = "write_request"
    /\ UNCHANGED <<blobVars, step, i, handled, slots, arrays, result, crashed, callVars>>

\* the method is done: it drops the references of its variables
EndMethod(r) ==
    /\ phase' = "end_method"
    /\ result' = r
    /\ i' = 1 /\ step' = "param"
    /\ UNCHANGED <<handled, callVars>>

\* there is no stream, or one of the writes or the flush fails
WriteRequestFails ==
    /\ phase \in {"create_stream", "write_request"}
    /\ EndMethod("FAILURE")
    /\ UNCHANGED <<blobVars, wire, slots, arrays, crashed>>

\* ff_stream_flush
FlushRequest ==
    /\ phase = "write_request"
    /\ i > Len(TypesOf("args"))
    /\ phase' = "read_method_id"
    /\ i' = 1
    /\ UNCHANGED <<blobVars, step, wire, handled, slots, arrays, result, crashed, callVars>>

\* a response without parameters is one byte, which must be 0
ReadEmptyByte ==
    /\ phase = "read_response"
    /\ TypesOf("received") = <<>> /\ i = 1
    /\ wire # <<>> /\ wire[1] = 0
    /\ wire' = Tail(wire)
    /\ i' = 2
    /\ UNCHANGED <<blobVars, phase, step, handled, slots, arrays, result, crashed, callVars>>

\* the objects for which the method takes a reference: all of its pointers
Taken(f) == {<<f, n>> : n \in {n \in DOMAIN TypesOf(f) : IsPtr(TypesOf(f)[n])}}

\* the out-parameters are set; mrpc_..._inc_ref of a pointer that is NULL
\* ends the program
ReturnResponse ==
    /\ phase = "read_response"
    /\ AllDone("received")
    /\ slots' = [slots EXCEPT !["returned"] = slots["received"]]
    /\ crashed' = \E o \in Taken("received") : ~IsSet("received", o[2])
    /\ arrays' = [a \in DOMAIN arrays |->
          [arrays[a] EXCEPT !.ref_cnt = @ + Cardinality({a} \intersect Taken("received"))]]
    /\ blobs' = [b \in DOMAIN blobs |->
          [blobs[b] EXCEPT !.ref_cnt = @ + Cardinality({b} \intersect Taken("received"))]]
    /\ EndMethod("SUCCESS")
    /\ UNCHANGED <<streams, disk, files, remaining, wire>>

\* the bytes are wrong, there are too few, or they come too late, or a file
\* cannot be written
ReadResponseFails ==
    /\ phase = "read_response"
    /\ ~AllDone("received") /\ step # "close"
    /\ DropNewBlob
    /\ EndMethod("FAILURE")
    /\ UNCHANGED <<wire, slots, arrays, crashed>>

-----------------------------------------------------------------------------
(***************************************************************************)
(* The generated stream handler and method handler                         *)
(***************************************************************************)

HasMethod == wire # <<>> /\ wire[1] < Len(Methods)

\* the stream handler calls the handler of the method
ReadMethodId ==
    /\ phase = "read_method_id"
    /\ HasMethod
    /\ served_id' = wire[1]
    /\ wire' = Tail(wire)
    /\ slots' = [slots EXCEPT !["request"] = Fresh(Methods[wire[1] + 1].request),
                              !["response"] = Fresh(Methods[wire[1] + 1].response)]
    /\ phase' = "read_request"
    /\ UNCHANGED <<blobVars, step, i, handled, method_id, foreign, arrays, answer, result, crashed>>

\* the client method begins to read; of a response that is not flushed some
\* part may have been sent before
BeginReadResponse(flushed) ==
    /\ phase' = "read_response"
    /\ i' = 1 /\ step' = "param"
    /\ IF flushed THEN UNCHANGED wire
       ELSE \E n \in 0 .. Len(wire) : wire' = SubSeq(wire, 1, n)
    /\ slots' = [slots EXCEPT !["received"] = Fresh(TypesOf("received")),
                              !["request"] = <<>>, !["response"] = <<>>]
    /\ UNCHANGED <<blobVars, handled, arrays, result, crashed, callVars>>

\* there is no method_id, or no such method: no response
ReadMethodIdFails ==
    /\ phase = "read_method_id"
    /\ ~HasMethod
    /\ phase' = IF foreign THEN "returned" ELSE "read_response"
    /\ wire' = <<>>
    /\ slots' = [slots EXCEPT !["received"] = Fresh(TypesOf("received"))]
    /\ UNCHANGED <<blobVars, step, i, handled, arrays, result, crashed, callVars>>

\* the method handler is done: it drops the references of its variables
EndHandler(ok) ==
    /\ phase' = "end_handler"
    /\ handled' = ok
    /\ i' = 1 /\ step' = "param"
    /\ UNCHANGED <<slots, arrays, result, crashed, callVars>>

ReadRequestFails ==
    /\ phase = "read_request"
    /\ i \in DOMAIN TypesOf("request") /\ step # "close"
    /\ DropNewBlob
    /\ EndHandler(FALSE)
    /\ wire' = <<>>

\* the service is called; it uses its parameters
CallService ==
    /\ phase = "read_request"
    /\ i > Len(TypesOf("request"))
    /\ phase' = "service"
    /\ i' = 1
    /\ wire' = <<>>
    /\ crashed' = \E n \in DOMAIN TypesOf("request") :
                    IsPtr(TypesOf("request")[n]) /\ ~IsSet("request", n)
    /\ UNCHANGED <<blobVars, step, handled, slots, arrays, result, callVars>>

ServiceReturns ==
    /\ phase = "service"
    /\ i > Len(TypesOf("response"))
    /\ phase' = "write_response"
    /\ i' = 1
    /\ UNCHANGED <<blobVars, step, wire, handled, slots, arrays, result, crashed, callVars>>

\* a response without parameters
WriteEmptyByte ==
    /\ phase = "write_response"
    /\ TypesOf("response") = <<>> /\ i = 1
    /\ wire' = <<0>>
    /\ i' = 2
    /\ UNCHANGED <<blobVars, phase, step, handled, slots, arrays, result, crashed, callVars>>

HandlerSucceeds ==
    /\ phase = "write_response"
    /\ AllDone("response")
    /\ EndHandler(TRUE)
    /\ UNCHANGED <<blobVars, wire>>

WriteResponseFails ==
    /\ phase = "write_response"
    /\ ~AllDone("response")
    /\ EndHandler(FALSE)
    /\ UNCHANGED <<blobVars, wire>>

-----------------------------------------------------------------------------
(***************************************************************************)
(* The service, which makes the parameters of the response.  It fills a    *)
(* blob in pieces, as the header of the blob says, flushes when it likes,  *)
(* and begins again with a new blob if the file system fails.  External.   *)
(***************************************************************************)
InService(where) ==
    /\ phase = "service"
    /\ i \in DOMAIN TypesOf("response")
    /\ step = where

ServiceSets ==
    /\ InService("param") /\ Type # "blob"
    /\ \E v \in ValuesOf[Type] :
         /\ answer' = Append(answer, v)
         /\ IF IsPtr(Type)
            THEN /\ SetSlot("set")
                 /\ arrays' = With(arrays, Name, [value |-> v, ref_cnt |-> 1])
            ELSE SetSlot(v) /\ UNCHANGED arrays
    /\ UNCHANGED <<blobVars, phase, step, wire, handled, method_id, served_id, foreign, result, crashed>>

ServiceCreates ==
    /\ InService("param") /\ Type = "blob"
    /\ \E v \in ValuesOf[Type] : CreateBlob(Name, Len(v)) /\ answer' = Append(answer, v)
    /\ step' = "open"
    /\ UNCHANGED <<phase, i, wire, handled, slots, arrays, method_id, served_id, foreign, result, crashed>>

\* one of the calls that fill the blob
ServiceFills ==
    /\ \/ InService("open") /\ OpenBlobToWrite(Name) /\ step' = "copy"
       \/ /\ InService("copy")
          /\ \E n \in 1 .. BytesLeftIn(NewStream) :
               WriteBlobStream(NewStream,
                   SubSeq(answer[i], NewStream.curr_pos + 1, NewStream.curr_pos + n))
          /\ UNCHANGED step
       \/ InService("copy") /\ FlushBlobStream(NewStream) /\ UNCHANGED step
    /\ UNCHANGED <<phase, i, wire, handled, slots, arrays, callVars, result, crashed>>

ServiceCloses ==
    /\ InService("copy")
    /\ blobs[Name].state = "COMPLETE"
    /\ DeleteBlobStream(NewStream, 0)
    /\ SetSlot("set")
    /\ step' = "param"
    /\ UNCHANGED <<phase, wire, handled, arrays, callVars, result, crashed>>

ServiceBeginsAgain ==
    /\ InService("copy")
    /\ files < MaxFiles
    /\ DeleteBlobStream(NewStream, 1)
    /\ answer' = Front(answer)
    /\ step' = "param"
    /\ UNCHANGED <<phase, i, wire, handled, slots, arrays, method_id, served_id, foreign, result, crashed>>

-----------------------------------------------------------------------------
(***************************************************************************)
(* The ends of the functions                                               *)
(***************************************************************************)

\* mrpc_..._dec_ref for a variable that is not NULL
DropParam(f, n) ==
    LET name == <<Owner(f), n>>
    IN  /\ IsSet(f, n)
        /\ slots' = [slots EXCEPT ![f][n] = "NULL"]
        /\ IF TypesOf(f)[n] = "blob"
           THEN BlobDecRef(name) /\ UNCHANGED arrays
           ELSE /\ arrays' = IF arrays[name].ref_cnt = 1 THEN Without(arrays, name)
                             ELSE [arrays EXCEPT ![name].ref_cnt = @ - 1]
                /\ UNCHANGED blobVars
        /\ UNCHANGED <<phase, step, i, wire, handled, result, crashed, callVars>>

\* the frames of the function that ends
Dropped ==
    CASE phase = "end_handler" -> {"request", "response"}
      [] phase = "end_method" -> {"received"}
      [] OTHER -> {}

DropNext == \E f \in Dropped : \E n \in DOMAIN slots[f] : DropParam(f, n)
AllDropped == \A f \in Dropped : \A n \in DOMAIN slots[f] : ~IsSet(f, n)

\* the stream handler flushes the response
HandlerEnds ==
    /\ phase = "end_handler" /\ AllDropped
    /\ \/ ~foreign /\ handled /\ BeginReadResponse(TRUE)
       \/ ~foreign /\ BeginReadResponse(FALSE)
       \/ /\ foreign /\ phase' = "returned"
          /\ slots' = [slots EXCEPT !["request"] = <<>>, !["response"] = <<>>]
          /\ UNCHANGED <<blobVars, step, i, wire, handled, arrays, result,
                         crashed, callVars>>

MethodEnds ==
    /\ phase = "end_method" /\ AllDropped
    /\ phase' = "returned"
    /\ slots' = [slots EXCEPT !["received"] = <<>>]
    /\ UNCHANGED <<blobVars, step, i, wire, handled, arrays, result, crashed, callVars>>

-----------------------------------------------------------------------------
(***************************************************************************)
(* The application after the call: it may read and move a blob that it has *)
(* received, and it drops its references, before or after its streams.     *)
(***************************************************************************)
ApplicationUsesBlob ==
    /\ phase = "returned"
    /\ \/ \E n \in DOMAIN slots["returned"] :
            LET b == <<"received", n>>
            IN  /\ IsSet("returned", n) /\ b \in DOMAIN blobs
                /\ \/ MoveBlob(b)
                   \/ \E r \in Readers :
                        /\ \A s \in streams : s.who # r
                        /\ OpenBlobToRead(b, r)
       \/ \E s \in streams : ReadBlobStream(s, 1) \/ DeleteBlobStream(s, 0)
    /\ UNCHANGED <<phase, step, i, wire, handled, slots, arrays, result, crashed, callVars>>

ApplicationDrops ==
    /\ phase = "returned"
    /\ \E f \in {"args", "returned"} : \E n \in DOMAIN slots[f] : DropParam(f, n)

\* the connection is lost and with it the end of what has been sent
BytesLost ==
    /\ phase \in {"read_method_id", "read_response"} /\ i = 1 /\ step = "param"
    /\ \E n \in 0 .. Len(wire) - 1 : wire' = SubSeq(wire, 1, n)
    /\ UNCHANGED <<blobVars, phase, step, i, handled, slots, arrays, result, crashed, callVars>>

\* A peer that is not generated from this interface sends anything: a client
\* of this kind needs no call, and is not there for the response ...
Messages == UNION {[1 .. n -> Bytes] : n \in 0 .. MessageLength}

ForeignClient ==
    /\ phase = "idle"
    /\ foreign' = TRUE
    /\ wire' \in Messages
    /\ phase' = "read_method_id"
    /\ UNCHANGED <<blobVars, step, i, handled, slots, arrays, result, crashed,
                   method_id, served_id, answer>>

\* ... and a server of this kind does not read the request
ForeignServer ==
    /\ phase = "read_method_id"
    /\ ~foreign
    /\ foreign' = TRUE
    /\ wire' \in Messages
    /\ phase' = "read_response"
    /\ slots' = [slots EXCEPT !["received"] = Fresh(TypesOf("received"))]
    /\ UNCHANGED <<blobVars, step, i, handled, arrays, result, crashed,
                   method_id, served_id, answer>>

Terminated ==
    /\ crashed \/ phase = "returned"
    /\ UNCHANGED vars

Next ==
    \/ /\ ~crashed
       /\ \/ Call \/ WriteMethodId \/ WriteRequestFails \/ FlushRequest
          \/ WriteParam \/ ReadParam \/ ReadNegativeLength \/ ReadLength
          \/ OpenNewBlob \/ CopyNewBlob \/ FlushNewBlob \/ CloseNewBlob
          \/ ReadMethodId \/ ReadMethodIdFails \/ ReadRequestFails
          \/ CallService \/ ServiceReturns
          \/ ServiceSets \/ ServiceCreates \/ ServiceFills \/ ServiceCloses
          \/ ServiceBeginsAgain
          \/ WriteEmptyByte \/ HandlerSucceeds \/ WriteResponseFails
          \/ ReadEmptyByte \/ ReturnResponse \/ ReadResponseFails
          \/ DropNext \/ HandlerEnds \/ MethodEnds
          \/ ApplicationUsesBlob \/ ApplicationDrops
          \/ BytesLost \/ ForeignClient \/ ForeignServer
    \/ Terminated

Spec == Init /\ [][Next]_vars

-----------------------------------------------------------------------------
(***************************************************************************)
(* Properties                                                              *)
(***************************************************************************)

\* the variables that point to an object, the open streams of a blob, and the
\* local variable of the function that fills a blob
Pointers(o) == {f \in Frames : Owner(f) = o[1] /\ IsSet(f, o[2])}
OpenStreams(b) == {s \in streams : s.blob = b}
Filling(b) == step # "param" /\ b = Name
References(b) ==
    Cardinality(Pointers(b)) + Cardinality(OpenStreams(b)) + (IF Filling(b) THEN 1 ELSE 0)

\* Every object has as many references as there are variables that point to
\* it, streams of it that are open and, while it is being filled, the local
\* variable of the function that fills it.  So none is freed too early, and
\* none is left when the application has dropped what it holds.
RefsExact ==
    /\ \A a \in DOMAIN arrays :
         arrays[a].ref_cnt = Cardinality(Pointers(a)) /\ arrays[a].ref_cnt > 0
    /\ \A b \in DOMAIN blobs :
         blobs[b].ref_cnt = References(b) /\ blobs[b].ref_cnt > 0
    /\ \A f \in Frames : \A n \in DOMAIN slots[f] :
         IsSet(f, n) => <<Owner(f), n>> \in DOMAIN arrays \union DOMAIN blobs

\* The service gets what the application has passed, and a call that
\* succeeds returns what the service has answered, even if bytes are lost:
\* a message that is cut off is never taken for a whole one, and no parameter
\* that is NULL for one.
ParametersArrive ==
    ~foreign =>
        /\ ~crashed
        /\ phase = "service" =>
             \A n \in DOMAIN TypesOf("args") : ValueOf("request", n) = ValueOf("args", n)
        /\ result = "SUCCESS" =>
             \A n \in DOMAIN TypesOf("returned") :
                (IsPtr(TypesOf("returned")[n]) => IsSet("returned", n))
                    => ValueOf("returned", n) = answer[n]

\* What has been read has the type it should have, whatever the peer sends, and
\* a blob that has been read is complete.
ReceivedInRange ==
    \A f \in {"request", "received"} : \A n \in DOMAIN slots[f] :
        (IsPtr(TypesOf(f)[n]) => IsSet(f, n)) =>
            /\ HasType(TypesOf(f)[n], ValueOf(f, n))
            /\ TypesOf(f)[n] = "blob" => blobs[<<f, n>>].state = "COMPLETE"

\* No function is handed a NULL pointer by a function that has succeeded.
\* This does not hold: mrpc_blob_unserialize returns FF_SUCCESS without a
\* blob when a foreign peer sends a length of 2^31 or more.
NoNullFromSuccess == ~crashed
=============================================================================

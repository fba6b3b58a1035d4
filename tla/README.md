# Verification of pbc-hadoop-client

pbc-hadoop-client is a small C library that speaks the Hadoop 2.0 RPC protocol:
an application initialises a protobuf environment from compiled `.pb` files,
opens *proxies* (one TCP connection each) and asks a YARN resource manager for
application ids.  It is built on pbc, a protobuf library kept in `ext/pbc`.
This directory holds TLA+ models of the library, their TLC runs and TLAPS proofs.

## 1. The system: components, state, interactions

| component | source | state it keeps | operations | what makes it correct |
|---|---|---|---|---|
| RPC client API and calls | `src/hadoop_rpc.c`, `src/hadoop_rpc_utils.c`, `src/client_rm_protocol_impl.c` | globals `env`, `is_env_initialize`, `hadoop_version`; per proxy `caller_id`, `protocol_name`, `socket_id`, `app_id` | `init_pb_env`, `new_hadoop_rpc_proxy`, `submit_application`, `destory_*` | an id is taken only from the answer to the latest call, callIds increase, replies are consumed whole, calls come back |
| byte I/O | `src/net_utils.c` | none (loop counters) | `read_all`, `write_all`, `read_raw_varint32`, `write_raw_varint32`, endian swaps | all bytes or an error, in order, once; encodings invert each other |
| loading of protocol files | `src/pbc_utils.c`, `src/str_utils.c` | concatenation buffer | `init_pbc_env_with_dir` | registered exactly what the directory holds |
| pbc registration | `ext/pbc/src/register.c`, `proto.c`, `bootstrap.c` | the files and types of an environment | `pbc_register`, `pbc_new` | dependencies first, every registrable file registered, terminates |
| pbc memory | `alloc.c`, `array.c`, `stringpool.c`, `map.c` | heap pages, arrays, maps | alloc, push, insert, query | blocks disjoint and inside their page; what was inserted is found |
| pbc wire format | `varint.c`, `context.c`, `wmessage.c`, `rmessage.c`, `decode.c` | encode buffer, decoded fields | encode, decode, get, set | what was set is what is read, at every width; cut messages yield nothing new; no buffer is overrun |
| pbc patterns | `pattern.c` | a list of fields and offsets; the caller's struct | new, pack, unpack, set default | a struct comes back as it was packed, whatever it held before |

The application's thread calls the API; the API calls the byte I/O on the
proxy's socket and pbc for every message.  All proxies share `env`.  The library
has no locks and no threads of its own; concurrency is between the one client
thread and the servers, and the hard behaviours are the ones of a connection:
answers that arrive late, twice, in pieces or never, writes and reads that fail
between two parts of a message, and retries on the same connection.  pbc is sequential; its
hard behaviours are orders of calls (fields, sub-messages, insertions, files), memory that
grows in the middle of one, and numbers at the boundaries of their widths.

## 2. Plan

Order of the modules, most important behaviour first. Those marked *done* exist.

1. *done* `HadoopRpc`: the client against its servers, with the environment as a set of
   known types. `AppIdService` is the abstract specification it implements.
   `HadoopRpcProofs`.
2. *done* `NetIO`, `NetVarint`: what `HadoopRpc` takes for single steps, namely `write_all`,
   `read_all` and the varint reader, byte by byte. `NetIOProofs`, `NetVarintProofs`.
3. *done* `PbcRegister`: what fills the environment. `HadoopRpc.Load[d]` is the pair of
   (`count`, `types`) that `init_pbc_env_with_dir` leaves for a directory `d`: `rc` and
   `msgs` of `PbcRegister` when its call returns. `PbcRegisterProofs`.
4. *done* `PbcHeap`, `PbcMap`: the containers under the environment and the decoded
   messages, which the modules above treat as sets and functions. `PbcHeapProofs`,
   `PbcMapProofs`.
5. *done* The wire format: `PbcVarint` (numbers), `PbcContext` (the cutting of a message),
   `PbcArray` (the storage of repeated fields), `PbcIdMap` (the tables of field and enum
   numbers), `PbcSchema` (message types), and on them
   `PbcWMessage`, `PbcRMessage` and `PbcPattern`; `PbcCodec` composes the three into a
   program that writes, a wire that may lose the end of a message, and a program that reads;
   `PbcCodecReading` says what the reader must find. `Recursion`, `PbcCodecProofs`.
6. *done* Abstract specifications: `StringMap`, which `PbcMap` implements (`MapRefinement`),
   `Allocator`, which `PbcHeap` implements (`HeapRefinement`), and `ByteStream`, which `NetIO`
   implements (`StreamRefinement`).
7. Theorems. Every safety property and every refinement of the runs is proved except the
   invariants of `PbcCodecReading`, which compare what was read with what was written
   (section 5).

## 3. The modules and the code

### HadoopRpc (`hadoop_rpc.c`, `hadoop_rpc_utils.c`, `client_rm_protocol_impl.c`)

One client thread (`pc`, `cur`, `k`) and, for each proxy, a socket with two directions. A
step of the client is one socket call together with the straight-line code up to the next
one, so that everything the peer can do falls between two steps.

| code | model |
|---|---|
| `env`, `is_env_initialize`, `hadoop_version` | variables of the same names; `env` is `NULL` or the set of message types it knows |
| `caller_id`, `protocol_name`, `socket_id`, `app_id` of a proxy | functions on `Proxies`; `socket_id` is `sock` |
| `init_pb_env` | `InitPbEnv` |
| `new_hadoop_rpc_proxy`: arguments, socket, connect, six writes | `NewProxy`, `OpenFails`, `ConnectToServer`, `WriteConnectionHeader` |
| `submit_application`, `get_new_app`, `send_rpc_request` | `SubmitApplication`, `GetNewApp`, `SendRpcRequest` |
| `recv_rpc_response`, part by part | `RecvHeaderLength`, `RecvHeader`, `RecvSize`, `RecvPayload` |
| `read_exception` | `ReadException` |
| a `read` or `write` that fails or returns short | `ReadAllFails`, `ReadAllSpins`, `RecvBogusLength`, `RecvGarbage`, `WriteFails`, `WriteKills` |
| `destory_hadoop_rpc_proxy`, `destory_pb_env` | `DestoryProxy`, `DestoryPbEnv` |

The servers and the kernel are external: `ServerReplies`, `ServerRepeats` and `PeerCloses`
do what the client can observe. A reply is its kind, its callId, its id and how many of its
parts have been sent; a client that reads a part waits until it is there. `torn` and
`desynced` say which streams are out of frame; nothing in the code knows.

Crashes are values of `pc`: a look-up in a missing environment (`nullderef`), a length that
was never set (`overrun`), the free of heap memory (`badfree`), a write to a closed
connection (`sigpipe`; the library does not ignore the signal).

### NetIO and NetVarint (`net_utils.c`)

`NetIO` is two threads and a bounded pipe: `Write` and `Read` are one system call each and
move any number of bytes, so that a message arrives in every possible set of pieces.
`NetVarint` reads one byte per step; the bits of the result are collected as the code
collects them, with the width of a C `int`. `WriteRawVarint` is the writer, for every `int` that
is not negative (`Lengths`); `Values` are those of which a run asks whether they come back.

`ByteStream` is what a user of `write_all` and `read_all` sees: a number of bytes written and
the messages delivered. `ImplementsStream` maps each `Write` to `Accept` and each
`ReadReturns`, and nothing else of the reader, to `Deliver`; pieces, failures, the end of the
sender and the return of `write_all` are stutters. A message without bytes counts as written
when those before it are.

### PbcRegister (`pbc_utils.c`, `register.c`, `proto.c`, `bootstrap.c`)

A step is one directory entry or one file of a pass of `_register_no_dependency`. A file is
its name, its imports, the types it defines and the types its fields use. `Directories` and
`Sets` are the inputs; `StackLens` is what the uninitialised `all_files.len` may hold.
`files` are the names that `p->files` has a pointer for: the built-in descriptor file is
entered with a null pointer and is not among them. `SelfContained` is what the description of a
protocol satisfies: no two files share a name, and a field's type is defined in its own file or
in one that is imported there. `MCPbcRegister` asserts it of the inputs of the run.

### PbcHeap (`alloc.c`)

Pages and blocks with addresses: `New`, `Alloc` (in the page or on a new one), `Delete` and
`FreePage`, which follows the link that lies in the page it frees.

`Allocator` is what the callers of `_pbcH_alloc` see: some memory, the blocks given out of it,
and an end at which all of it is given back. `ImplementsAllocator` maps the memory to the bytes
of the pages that are not freed: `New` fetches some, `Alloc` gives a block of its own and may
fetch more, `Delete` shuts the heap and each `FreePage` gives some back; the search for the page
size is a stutter.

### PbcMap (`map.c`, `map_sp`)

A step is one round of a loop. `slot` is the table with the code's `next` links, numbered
from one; `reach` is a history variable, the slots on the chain from each slot, by which the
invariants can speak of chains without recursion. `put` and `doubled` record what the
callers did. `_pbcM_sp_insert` links a new entry in behind its home and
`_pbcM_sp_query_insert` at the end of the chain; both are modelled. What callers write into
an existing entry they got from a query_insert is left out.

`StringMap` is what a user sees of it: a set of entries, a call that waits, the last answer.
`ImplementsMap` maps the table (and, while it grows, the old slots not yet copied) to that set,
and each call to the step in which it returns; searching, copying and linking are stutters.
A `Visit` may return any entry or null: that an iteration meets each one once is not said by
`StringMap` but by `IterationComplete`. A query may find either of two entries with one key,
as in the code, and a null pointer found looks like a miss.

### PbcVarint, PbcContext, PbcArray, PbcIdMap, PbcSchema (`varint.c`, `context.c`, `array.c`, `map.c`)

Operators without steps. A number is the set of the positions of its one bits, so that shifts
and masks are what they are in C, sign extensions and lost bits included, and 64 bits cost
what 32 do. `Encode`, `Zigzag` and `Fixed` give the bytes of a number, `Decode`, `Dezigzag` and
`Unfixed` take them back. The tenth byte of a varint is shifted by 35 as an `int`, which C
leaves undefined; `shift35` is what the build makes of it. `Open` is `_pbcC_open`: the atoms of
a message, found before anything is known of its type. `Push` and `Index` are those of an
array that has room for two elements and then grows. `IpNew`, `IpQuery`, `SiNew` and `SiQuery`
are the maps that are filled once, when a type is registered: an array, or a table with a slot
for each entry, through which every field and every enum value is looked up. `Fields` and
`Enums` are the types, `Order` the order in which their tables are filled, `Hash` is `calc_hash`.

### PbcWMessage, PbcRMessage, PbcPattern (`wmessage.c`, `rmessage.c`, `decode.c`, `pattern.c`)

| code | model |
|---|---|
| `pbc_wmessage_integer`, `_real`, `_string`, `_message` | `AddInteger`, `AddReal`, `AddString`, `AddMessage` |
| `pbc_wmessage_buffer`, `_expand` | `Buffer`, `Expand` |
| `_pack_packed_64`, `_32`, `_varint` | `PackFixed`, `PackVarints` |
| `pbc_rmessage_new` and the accessors | `ReadMessage`, `RSize`, `RInteger`, `RReal`, `RString`, `RMessage` |
| `pbc_decode` with its callbacks | `PbcDecode`: a result and the sequence of callbacks |
| `pbc_pattern_new`, `_set_default`, `_pack`, `_unpack` | `PatternNew`, `SetDefaults`, `PatternPack`, `PatternUnpack` |

A buffer is its bytes and its capacity; `over` records a write behind the capacity. Packed
fields are packed in the order of a hash map, which is any order here (the argument `at`).
Of a field without repetition that occurs more than once the reader keeps all values, and an
accessor may return any of them, because the map does not say which it finds. A struct is a
function from fields to cells; unpacking starts from what the struct held before.

### PbcCodec

The writing program calls, in any order and on any message it has a handle of, what `Menu`
lists (`Integer`, `Real`, `String`, `SubMessage`, `Refused`), and then `Send`; or it packs a
struct (`SendStruct`). The bytes arrive whole or without their last few, and are read in each
of the three ways, as the type they were written as or as an older one with fewer fields
(`ReceiveMessage`, `ReceiveCallbacks`, `ReceiveStruct`). `told` is a history variable: for each
message and field, what the calls have said, in order. The invariants of `PbcCodecReading`
compare it with what was read, through as many levels of sub-messages as there are (`Agrees`).

Where the code loops or recurs, these modules have recursive functions and folds
(`AtomsFrom`, `Varints`, `Buffer`, `ReadLevels`, `PatternPack`), which can be reasoned about.
`Buffer` is defined on the handles of the messages: a sub-message has a larger handle than the
message it is part of, since there is no call that attaches an older one. `ReadLevels[n]` is
the reader of messages with at most `n` levels of sub-messages, and `ReadMessage` gives it the
number of bytes for `n`, as each level takes a byte at least.

Assumptions on the constants: `FieldsAssumption` (what the compiler of the definitions sees
to: labels and types are those of protobuf, packed fields are numeric, the type of a field of
sub-messages exists) and `CodecAssumption`. The latter says of the calls that numbers have 64
bits, that a positive length of a text is not longer than the text, which is what a caller of a
C function answers for, and that `pbc_wmessage_message` is only called for fields of
sub-messages: for any other `_wmessage_new` gets a null pointer for a type. It says the same of
the structs a pattern packs, and that an array is given where the pattern has one.

## 4. The runs

| run | question | answer |
|---|---|---|
| `rpc_replies` | can a call take another call's answer, leave part of a reply behind, crash or hang, when answers vary and repeat? does the client implement `AppIdService`? | no; every call on a connection in frame comes back; yes |
| `rpc_faults` | do callIds and ids survive every fault of sockets and servers, and open proxies a missing environment and repeated initialisations? | yes |
| `rpc_reinit` | does a successful initialisation stay? | **no**, see findings |
| `rpc_payload` | is the request field the encoding of the request? | **no**, see findings |
| `netio` | are streams preserved however they are cut, and is this a `ByteStream` to its users? | yes, and without faults all arrives |
| `netio_end` | does `read_all` end when the peer closes? | **no**, see findings |
| `varint` | are lengths read as written, and longer, cut and failing input handled in bounded time? | yes |
| `register` | are exactly the right files registered, imports first, with every field type found? | yes |
| `heap` | do blocks overlap or overrun, are pages freed once, is the heap an `Allocator` to its users? | no; yes; yes |
| `map` | is what was stored found, once, through collisions, growth and iteration; is the table a plain map to its users? | yes |
| `codec` | is what was set what is read, in each way of reading; does a cut message yield anything else; is a buffer overrun? | yes; no; no |
| `codec_packed` | do the elements of packed fields come back, at every width and length? | **no**, see findings |

### Bounds, and why they are enough

- `HadoopRpc`: in `rpc_replies` `MaxCalls` 3 allows an answer that is two calls late; in
  `rpc_faults` 2, an answer that is one call late. `MaxId` 2 lets two different ids be handed
  out to one proxy; `MaxInit` 2 allows a failed and a successful initialisation, or a
  successful and a repeated one. One proxy: several only share `env` and the thread, and the
  theorems hold for any number of them. Kinds of answers and faults are split over the runs:
  `rpc_faults` has all faults with the two kinds of answers that differ in framing, and a
  directory for each message type that may be missing.
- `NetIO`: messages of 3, 0, 1 and 4 bytes through a pipe of 3, so that a message is cut in
  the pipe, fills it exactly, is empty, and does not fit.
- `NetVarint`: the numbers on both sides of every change of length; up to five bytes, every
  mixture of the groups 0, 1 and 127; then long ones of up to twelve bytes, more than the
  ten the reader takes.
- `PbcRegister`: two calls on one environment or on a new one; every order of up to four
  files with chains of imports, cycles, missing imports and repeated files.
- `PbcHeap`: four blocks around the page size; `MinPage` 16 stands for the 1024 of the
  code, which only scales the sizes.
- `PbcMap`: five entries grow a table from one to eight slots; two keys share a home and
  the chain of a third becomes part of theirs.
- `PbcCodec`: message types with a field of every type and label, and one whose tag takes two
  bytes; the numbers of the inner type and of the enum, one of them negative, share slots.
  `MaxCalls`: two calls to messages of the outer type and two to those of the inner one,
  so that a field occurs twice, fields come in either order, and sub-messages hold
  sub-messages. A call may be a loop of calls: 21 elements make an array and a buffer grow
  several times, a text of 130 bytes needs more than one doubling and a length of two bytes.
  Numbers lie on both sides of zero and of 7, 14, 32 and 58 bits. `MaxCut` 2 cuts inside a
  varint, behind a tag and between two fields. `Rooms` are buffers too small, just right and
  ample for the structs; `Priors` is what the struct held before. In `codec` `StaleBytes` does
  not matter, as no byte is sent that was not written; in `codec_packed` it is zero or not.

`CHECK_DEADLOCK FALSE` stands where the system may really stop: after a crash of the process,
at the end of a stream, of one varint, of the bounded calls of the `register` run, after
the deletion of the one heap, after a search that was misled to a null pointer, and when the
one message of `PbcCodec` has been read.

### Fairness

- `HadoopRpc.FairSpec`: the thread of a call in progress runs, and a server answers a request
  it has received. The latter is needed for any liveness at all: the code has no time-out.
- `NetIO.FairSpec`: both threads run, and a system call that can move bytes moves some. No
  fairness on faults.
- `PbcRegister.FairSpec`, `PbcMap.FairSpec`: a call that was made runs. Both are sequential
  code. Nothing makes an application call.
- `PbcHeap`, `NetVarint` and `PbcCodec` state no fairness: their steps are calls, which nothing
  forces a program to make.

### Findings

- `rpc_reinit`: a second `init_pb_env` replaces the loaded environment by an empty one,
  says "env is already initialized." and returns 0 (`hadoop_rpc.c:90`).
- `rpc_payload`: the empty `GetNewApplicationRequest` has length 0, which
  `pbc_wmessage_string` takes for "use strlen": uninitialised bytes are sent
  (`hadoop_rpc_utils.c:274`).
- `netio_end`: `read_all` counts 0 from `read` as progress and calls it for ever
  (`net_utils.c:63`).
- `codec_packed`: "the entire array is encoded as a single length-delimited blob"
  (`descriptor.proto:349`), but `_pack_packed_32` writes elements of four bytes at distances of
  eight and moves the write pointer by four each (`wmessage.c:350`): of two or more elements
  of a packed float or fixed32 field every second is lost. And `_pack_packed_varint`
  (`wmessage.c:417`) moves the elements when their length has another number of bytes than was
  guessed, but not the write pointer: the next field overwrites the end of the last element,
  or the message ends one byte early.

Other behaviours of the code the models have and no run refutes a claim about:

- `hadoop_rpc_utils.c:134` frees memory that the message's heap owns when the last write of the
  connection header fails (`pc = "badfree"`).
- `hadoop_rpc_utils.c:392` prints that the header could not be made and sends a frame without
  one, with a length that was never set (`noheader` in `rpc_faults`).
- `client_rm_protocol_impl.c:71`: an absent `application_id` gives the proxy id 0, and the
  next `submit_application` is refused because it has one.
- `net_utils.c:109`: the varint reader ignores the results of its reads; at the end of a
  stream it makes up a number. After ten continuation bytes it returns 0 without a value,
  and after a proper varint of six to ten bytes -1 with one (`net_utils.c:151-161`).
- `pbc_utils.c:50`: `all_files.len` is never set; `pbc_utils.c:51`: a file that cannot be read
  is counted as registered.
- `bootstrap.c:281`: a file that imports `google/protobuf/descriptor.proto` is never
  registered, because the built-in file is stored with a null pointer.
- `rmessage.c:299`: a field that occurs twice in a message gets two entries in the index.
  Which one is found depends on the slots and may change when the table grows
  (`EntriesOnce` and `IterationComplete` of `PbcMap` are about keys that were not doubled).
- `varint.c:69`: bytes five to ten of a varint are shifted as 32-bit ints. A number comes back only
  if its bits 59 to 63 are all alike; where the build masks the shift by 35, a negative one must
  have bit 31 set too. These conditions are exact (`Survives` and `VarintRoundTrip` of
  `PbcCodecProofs`); the menu of `codec` has numbers that satisfy them.
- `varint.c:105`: `_pbcV_dezigzag32` fills the upper half of a `sint32` from bit 31 of the zigzag
  form, which says whether the two highest bits of the number differ, not whether it is negative
  (`Zigzag32RoundTrip`). The lower half is right.
- `pattern.c:452`: a negative number from a 32-bit `int` of a struct gets no upper half and is
  encoded in five bytes; `context.h:31` speaks of ten. `_pack_packed_varint` does the same.
- `wmessage.c:463`: `pbc_wmessage_buffer` packs packed fields and sub-messages anew each time it
  is called; a second call sends them twice. `Send` calls it once.
- `pattern.c:638`: `pbc_pattern_pack` asks twice for the room of the length of a packed field of
  fixed width, and refuses one that would just fit.
- `pattern.c:123` and `:320`: of an `int16` in a struct only one byte is written, and an `sint64`
  is only taken from a slice, which it never is. `PbcPattern` has both; the format of `codec`
  has neither.
- `decode.c:27`: `call_unknown` compares the whole tag with the wire types, so that `pbc_decode`
  fails on every message with a field it does not know.
- `rmessage.c:255`: the heap of the context is not freed when a message cannot be opened.
- `rmessage.c:355`: the name of an enum number that the type does not have is looked up to a
  null pointer, whose length is then asked for.
- `rmessage.c:173`: after each occurrence of a packed enum field, as many elements as it brought
  get their names from the start of the array; when the field comes in two occurrences, or the bytes
  of one end inside a number, the elements behind keep a name pointer that nobody wrote
  (`NAMELESS` of `PbcRMessage`; any name may be read). No writer of this library sends a field so.
- `pattern.c:741`: `_is_default` compares reals with `==`. A -0.0 in a field whose default is 0.0 is not
  sent and comes back as 0.0; the properties of `codec` take the two for one value (`Canon`),
  and a struct of the run has a -0.0.
- `bootstrap.c:178`: the test for a field that could not be entered, `err < 0`, is never true.
- `register.c:100`: a difference of `uint32_t` is tested for being negative.
- `map.c:386`: the hash of the empty string is 0, as in an empty slot, so that a look-up of it
  compares with a null key (`WalkNull` of `PbcMap`). `alloc.c:39`: for a slice of more than
  2^30 bytes the doubling of the page size overflows an `int` and does not end.

## 5. The proofs

All proofs are checked by TLAPS for every value of the constants that satisfies the named
assumptions; TLC evaluates those assumptions in the runs.

**HadoopRpcProofs.** Assumptions: `ArgsAssumption`, `LoadAssumption`, `BoundsAssumption`,
`NullAssumption`. `AppIdFromOwnCall` is not inductive: that the id in a proxy belongs to its
latest call follows from the callId test only if the reply that passed the test is the reply
being read, and if its id was handed out for the callId it names. `IndInv` adds these:
`CallsOfOpenProxies` (a proxy in a call has no id and its frame has the next callId),
`CallIdsIncrease`, `WireMatchesCalls` (nothing on the wire is newer than the last call, and
answers carry what was handed out for their callId), `IssuedBelowNext` (ids are fresh) and
`ReadingOwnReply` (past its header, the reply at the head of the stream is the latest
call's). `AppIdWriteOnce` follows from `CallsOfOpenProxies`, and so does, step by step, the
refinement of `AppIdService`.

On `IndInv` rest the theorems about calls. `ReplyConsumed` is implied by `AnsweredInFrame`: a proxy whose
last call ended with an answer is in frame, unless its next call, still running, has just lost
track. That a call which ended so consumed its reply rests on `ReadingOwnReply`. For
`EnvOfOpenProxies`, `EnvOnceSet`: once initialised, or once any proxy has a socket, `env` is not
`NULL`. `NoCrash` is not a theorem of `Spec`: the crashes of section 3 are behaviours of the
code. `UndisturbedNeverCrashes` states conditions under which there is none: `Undisturbed` (every
environment that can be loaded is complete; no resets and no interrupted calls; connections may be
refused or closed, reads may be short, answers may be of any kind and repeated) and `InitOnce` (the
application does not initialise again after it has succeeded). `rpc_replies` is an instance of
them. `CalmInv` is the invariant.

**PbcRegisterProofs.** Assumptions, on the shape of the inputs: `NamesAssumption`,
`SetsAssumption`, `DirectoriesAssumption` and `StackLensAssumption`. That the passes stop only
when nothing more can be registered is decided in the code by comparing two counters. `RegInv`
has in `PassOf` what makes this right: the `rr` files met in this pass are among the at most `r`
left over from the last one, so equal counts mean equal sets, and then nothing was registered
in between. The proof is about cardinalities of sets of positions. `TypesResolved` is a theorem
for inputs that are `SelfContained`; without that it is false, as a type may be missing from
the files altogether. `Resolved` adds that the types of a known file are known, which is what
the order of the imports is for.

**PbcHeapProofs.** Assumptions on the sizes. `HeapInv`: blocks lie below `used` of their page,
pages hold what is used unless a block larger than a page was placed, the list of pages is
in the order of their making, and the pages freed are the ones before the next to free.
`HeapRefinement` goes through the actions: the new block shares no byte with an older one by
`BlocksDisjoint` of the state after the step, and lies in memory the heap has by
`BlocksInPage`. A step that frees a page gives back something that was still there, and the last
one leaves nothing (`StillThere`); for that every page must have a byte (`PagesHaveRoom`), as it
does because the page size is doubled from one that is not zero.

**PbcMapProofs.** Assumptions: `HashAssumption` (any function into the naturals),
`PairsAssumption`, `HintsAssumption`, `NullAssumption`. `MapInv`: `ChainsLead` (a chain is a
slot and the chain of its `next`, without a circle, and transitive), `EmptySlotsApart` (an
empty slot is on no other chain), `EntriesOnChain` (an entry is on the chain of its home),
`SizeIsUsed`, and for a search under way that its key, if present, is still ahead
(`CallInv`). `BehindChains` is the main lemma: linking an empty slot in behind any
slot of a chain extends exactly the chains through that slot. `FullUsed` says that a rehash,
which copies the first `size` slots, copies all entries, because the table is full.
`MapRefinement` follows action by action: by `NothingLost` the contents are what was stored
(`ContentsArePut`), also in the middle of a growth. A query_insert stores only where nothing is,
since an empty home has no entries on its chain (`EmptyHome`) and a search that has reached the
end of the chain would have met its key (`WalkLost`); what a query answers is `QueryAnswers`,
a conjunct of `MapInv` and a theorem of its own. `NullAssumption` is needed throughout: an
empty slot is told from a taken one by its null key.

**NetIOProofs.** Assumptions: `SizesAssumption`, `CapacityAssumption`. Each byte that is to be
sent has a `Position`, the number of bytes before it. `StreamPreserved` is inductive with
`TypeOK`: the pipe holds the bytes at the positions between `Delivered` and `Written`. What has to
be shown is that positions are distinct (`BytesBefore` of the next message is that of this one and
its size, a fact about cardinalities of finite sets), so that the byte `Read` puts at an
offset is the byte of that offset, also across the boundary of two messages. For
`StreamRefinement`, the buffer of a call that returns is the message whose turn it is, and as the
pipe cannot hold fewer than no bytes, all of that message has been written
(`ReadReturnsDelivers`).

**NetVarintProofs.** Assumptions on the constants only. `ReadInv` says of a run that missed nothing
that `result` is the number of the bytes read so far, that all of those continue, and how it
ended. `Number` defines this number by its digits to the base 128, without the reader's
shifts; `NumberStep` is the step from one to the other. `WriteRawVarint` is a recursive
function, of which the prover must first be shown that it exists: `WriteLoop` gives it in
closed form. Then `WriteEncodes` has its digits, and `EncodingReads` reads them.

**Recursion.** No results about the program, but lemmas the other proofs need of recursive
functions and folds, once for all: that a
function defined by recursion on arguments of a smaller measure satisfies its equation
(`RecursiveFunction`), that sets closed under such a step hold everything
(`MeasureInduction`), and that what a step keeps a fold keeps (`FoldInduction`). The
definitions, the measure, the step and the invariant are operator constants of the module, and each
recursion of the wire format is an `INSTANCE` of it. `Fold` is `FoldLeft` with its definition
written out, so that the instances need not each bring a copy of `SequencesExt`.

**PbcCodecProofs, numbers.** No assumptions; for every number of 64 bits, as a set of bit
positions, bit by bit. `GroupsBits` says which bits are in which byte of an encoding and which bytes
continue, `LengthFound` that its length is found again with anything behind it. `LowBits` and
`HighBits` are the two halves the decoder puts together; `ShiftedBits` is what a 32-bit
shift makes of one byte. `VarintRoundTrip` is an equivalence: it says which numbers are lost
too. `FixedRoundTrip` holds for any width.

**PbcCodecProofs, messages.** Assumptions: `FieldsAssumption`, `CodecAssumption`. `CodecInv` is the
invariant of a message on its way. A message under construction is `Written`: its bytes are in its
buffer, whose capacity is 64 doubled some times; its arrays have the memory for their elements, and one
that has outgrown its two own places has room for another and a capacity that is a power of two
(`GrownWell`) - without the latter, that `_pbcA_push` grows when the number of elements plus one is a
power of two would not help. The messages form a `Tree`, sub-messages behind the message they are
part of. Then every call writes no more than it has made room for: the largest encoding of each type
is less than the 10, 18 or 20 bytes the code asks for (`BodyBytes`, `TagBytes`, `NumberFits`,
`StringFits`), a packed field of varints stays within its room although its length is written
twice and its elements are moved (`CorrectFits`), and finished sub-messages fit behind their length
(`SubFits`). `BufferKeeps` concludes for a tree of any shape, from the last message to the first. The bounds
are part of `Written` only under the hypothesis that no number is given to a packed field of a type of 4
bytes (`NarrowUnpacked`, that is `NoNarrowPacked(Menu)`); `BufferFits` has the hypothesis in its statement
and draws the conclusion: every buffer that `pbc_wmessage_buffer` has filled holds what was written to it,
and so do the arrays. On the other side `AtomsRead` says that every atom lies within the bytes that arrived, whatever
they are as long as no length in them is one of the few below 2^32 that the model refuses and the
code does not (section 6), and `ReadArraysHold` that every array of every message made of them, at any depth, has the memory for what
was pushed; it goes by induction over the levels, since a message's arrays hold messages that were
read the same way (`Results`, `Held`). `CodecTypes` and `NothingOverruns` follow.
`NothingOverruns` has the same hypothesis, `NarrowUnpacked`. It is needed, because of the stride of `_pack_packed_32` (see the findings): of many such
elements the last are written behind the room that was made. `MCPbcCodec` asserts it of the menu of
`codec`. Structs packed with patterns are not concerned.

Model-checked only: all liveness (`CleanCallReturns`, `AllDelivered`, `CallReturns`), which is
out of reach of the prover; and of the wire format that what was written is what is read
(`ReadsWhatWasTold`, `CutNeverInvents`, `StructReadsBack`, `CallbacksInOrder`). For these one
would have to invert the encoding of a whole message, with all its fields in the order of the calls and
its sub-messages; proved of it are the parts: the formats of the numbers, that atoms stay within
the bytes, and that the kinds of all values are kept. `Agrees`, through which the properties compare
messages, recurs over their sub-messages and is for TLC only. `IndInv`,
`RegInv` and `HeapInv` were checked with TLC before they were proved; `MapInv` is part of
its run.

## 6. What is not modelled

- Inputs on which the models of the wire format are not meant to be read: a field whose wire
  type is not that of its type (the reader looks at the type only, except for slices); lengths
  close to 2^32: the model refuses every length of 2^30 or more, as `context.c:66` does, but
  for the ten below 2^32 at which its sum wraps and the code goes on outside the buffer; strings with a null pointer for a buffer;
  `StaleBytes` is one byte for all the gaps of a buffer.
- `_pbcC_open_packed` (dead code); where the atoms of a context are stored; `pbc_array_slice`;
  `pbc_rmessage_next` (the iteration of `PbcMap`); the parsing of a pattern's format string;
  string pools (copies of names that are freed together).
- What registration stores of a type besides its name: defaults, nested names, extensions.
  `bootstrap.c` unpacks the built-in descriptor with patterns; `PbcRegister` starts behind that.
- `pbc_dump`: a command line tool without state.
- `foreach` of the maps, which visits the slots in order, and `_pbcM_ip_combine`, which nothing
  calls.
- The endian swaps: permutations of bytes without state.
- Logging, the texts of exceptions, host names and ports.
- Several application threads: the library has no locks and its globals are not meant to be
  shared.

# A TLA+ model of mudap

mudap is a debug adapter: a TCP server (port 4711) that speaks the Debug Adapter
Protocol (DAP) to Visual Studio Code and executes a Z80 program on the z80ex
emulator. This directory models what the server does with a session, checks the
model with TLC on small programs and proves the main results with TLAPS for every
program. All paths below are relative to the repository.

## 1. The system

| component | source | state it keeps | operations |
|---|---|---|---|
| connection | `src/main.cpp`, `src/socket_stream.cpp` | one socket at a time, its stream buffer, the event sender | accept, run a session, drop it |
| dispatcher | `lib/dap/dap.cpp`, `lib/dap/requests.cpp`, `lib/dap/response.cpp` | the handler chain, a mutex | read a message, hand it to the handler of its command, write the response |
| debugger | `src/dbg.h`, `src/dbg.cpp`, `src/emulator.cpp` | CPU, 64 KiB of memory, event counter, `launched`, `pending_entry_stop`, breakpoints, symbols, source cache | look up symbols, lines, addresses; rebuild breakpoints; cache sources |
| run control | `src/handlers/{launch,configuration_done,continue,next,step_in,step_out,disconnect,initialize}.cpp` | a detached thread per stopped event | load, run, step, report the stop |
| breakpoints | `src/handlers/set_*breakpoints.cpp` | lines per file, addresses, instruction addresses | replace a file's lines, replace the instruction addresses |
| source views | `src/handlers/{stack_trace,source}.cpp` | references to files and listings | show the current frame, deliver a text |
| loader | `src/handlers/launch.cpp:18-153` | memory image, entry point | read Intel HEX or a raw binary |
| symbol files | `lib/sdcc/*.cpp` | modules, functions, lines; symbols, segments | read CDB and MAP files |
| queries | `src/handlers/{threads,scopes,variables,read_memory,set_exception_breakpoints}.cpp` | none | format registers, memory, symbols |

How they interact. `main` accepts one connection, builds a `dap` and a `dbg` on its
stack and calls `dap::run`, which reads a request, calls one handler under a mutex
and writes the response, until the client closes. The handlers share the `dbg`
object. Nothing runs between requests: `continue` executes up to 100000
instructions inside its handler. Stops are announced by detached threads that
sleep 20 or 50 ms, take a number from the counter in `dbg` and write to the
same output stream as the main thread, without a lock; `stepIn`, `stepOut` and
`initialize` write their event themselves, before their response. The threads are
not joined: when a session ends they hold a dangling pointer to its `dbg`.

What is hard here is therefore the protocol: in which order requests, responses
and events reach the client, whether a stop is ever lost, doubled or about
another request, whether the program moves behind the client's back, and what a
thread of one session does to the next. Unit tests of the repository cover the two
file parsers only.

What makes each component correct:

- run control: a stopped program stands still until the client resumes it; every
  resume ends in one stop with its own reason; breakpoints end a resume;
- dispatcher: one response per request, in order, whatever events come between;
- debugger and breakpoints: what is armed is what the client asked for last, in
  the symbols that are loaded; a line reported verified is armed;
- source views: a reference names one text for as long as the client may use it;
- loader, symbol files: the image and the entry point are what the records say; a
  record is attached to the right module and function or dropped; an address has the name
  nearest to it;
- connection: requests arrive and messages leave whole, once and in order, however the
  bytes are cut; nothing waits in a buffer for ever.

## 2. Modules

| module | content |
|---|---|
| `StopProtocol` | the abstract promise: what the client knows (idle, running, stopped) and when the program counter may move |
| `RunControl` | client, dispatcher, handlers and detached threads, one action per step another party can see between; all properties |
| `RunControlInv` | the inductive invariants, in named parts |
| `MCRunControl` | programs for TLC: `MCSucc`, a loop with a branch, and `MCSpin`, one instruction that jumps to itself |
| `RunControlProofs` | theorems for every client: types, breakpoints, the order of the responses, that work runs out |
| `RunControlSafetyProofs` | theorems for a patient client: its stops, what it leaves behind when it closes, and the refinement of `StopProtocol` |
| `StopOwedProofs` | that a patient client loses no stop, but in two cases |
| `RequestStream` | the abstract promise of a connection: requests served one by one, each once and in order |
| `Connection` | one connection byte by byte: both stream buffers, `read_message`, `send_message`, the loop of `dap::run`, an event thread beside it |
| `MCConnection`, `ConnectionProofs` | six kinds of frame for TLC; theorems and the refinement of `RequestStream` |
| `SourceBreakpoints` | CDB and MAP records, the two lookups, breakpoints of several files and the answers to them |
| `MCSourceBreakpoints`, `SourceBreakpointsProofs` | all small symbol files for TLC; theorems |
| `SourceDelivery` | stack frames, references, the source cache, listings, and the texts a client keeps |
| `MCSourceDelivery`, `SourceDeliveryProofs` | two files and three addresses for TLC; theorems |
| `IhxLoader` | the lines of an Intel HEX file, what `load_ihx` makes of them, and the entry point of launch |
| `MCIhxLoader`, `IhxLoaderProofs` | lines of every type for TLC; theorems |
| `SymbolFiles` | the CDB and MAP parsers record by record, and the lookups of lines and names in what they build |
| `MCSymbolFiles`, `SymbolFilesProofs` | records of every kind for TLC; theorems |

### RunControl and the code

- `c2s`, `s2c` are the two directions of the socket. A frame written to it is one
  step (`Emit`); so is a frame read (`Take`, the first half of an iteration of
  `dap::run`). A connection that is closed swallows what is written to it.
- `launched`, `pending`, `event_seq`, `srcbps`, `bps`, `ibps`, `loaded` are the
  fields of `dbg`; `pc` is the program counter of the CPU. One source file, and
  its lines as a set; lists of addresses as sets, since the code only searches them.
- `mpc` is where the main thread is: accepting, reading, in the loop of continue
  (`run`) or next (`step`), between the load and the store of `event_seq_++`
  (`store`), before its own event (`emit`) or its response (`reply`).
- `timer` holds the detached threads: asleep, with the counter loaded, with it
  stored. An `own` thread belongs to the session, an `orphan` outlived it.
  What an orphan's next access does is undefined, so the model has all three
  outcomes: the process dies (`OrphanCrash`), nothing anyone sees happens
  (`OrphanVanish`), or the object of the next session lies at the same stack
  address and the thread goes on in it (`OrphanAdopted`).
- `Succ` stands for `z80ex_step`: one instruction at an address leads to one of a
  set of addresses. `StepLimit` is the 100000 of `continue.cpp` and `next.cpp`.
- The client (`Client*` actions) is what a DAP client may send. A patient one resumes
  only a program it was told is stopped and closes when it has a response to all it sent and waits for
  no stop (`Settled`), which is what it can see; without
  `Habits` it also launches before `configurationDone`. Three habits relax that:
  `configFirst`, with which it is still called patient here, `overlaps` and `closesEarly`.
- The handlers of queries change nothing, so they are the one request `query`.
- `LaunchArgs` are the launches a client may send: without a program, with one that has
  symbols or has none.

`RunControl` serves requests one at a time, which is what lets the other modules take a
request and its response as one step; what symbols, sources and program are is a constant in
`RunControl` and the subject of the others. That a frame read and a frame written can be one
step there is what `Connection` shows.

### Connection and the code

- `net` is what the client has sent and the server not read from the socket, `inbuf` is
  `in_buffer_` from `gptr()` to `egptr()`, `outbuf` is `out_buffer_` from `pbase()` to
  `pptr()`, `in_ok` and `out_ok` the states of the two streams. `header`, `payload`, `want` are
  the locals of `read_message`.
- A byte is a record of the message it belongs to and its place in it, so that a byte lost,
  repeated or read as part of another message shows. A header line counts as one byte:
  `getline` takes its bytes one by one. `length` is what the line says, `NaN` if `stoi` throws.
- `Refill` is `underflow`, `Put`, `Overflow` and `Flush` are what `operator<<` does with the
  buffer. `overflow` stores the character at `pptr()`, which `setp` has put at the end of the
  array when the buffer is full: `outbuf` may be one longer than `BufferSize`, and the process
  may die of it.
- Two threads in the output buffer at once (`raced`) are a data race. `Tear` and the steps
  of both give its outcomes, and nothing is said of the bytes from there on.
- A frame whose handler throws (`throws`) ends the process, since nothing in `main` catches:
  `setInstructionBreakpoints` with a reference that is no number, `readMemory` with a reference that is a string.
- Threads that outlive a connection are in `RunControl` only. A write to the socket
  never blocks here. A payload that is not one of the client's bodies does not parse (`Torn`) and is
  answered all the same.

### SourceBreakpoints and the code

- `symbols` is what a launch has loaded: `cdb_modules_` as the sequence of their lines, in
  the order both lookups walk them, and `map_symbols_` with the location that
  `map_symbol_to_source` reads out of the name (`at`, empty if there is none). A CDB may have modules
  and no lines, a MAP segments and no symbols; `has_cdb` and `has_map` tell them from absent files.
- `LookupAddress` and `LookupSource` return the first match, CDB before MAP, with the
  asymmetry of the code: the one masks a MAP address to 16 bits, the other compares
  all 32. `Size` is the 65536 of the mask.
- `sbf` is `source_breakpoints_by_file_`, `bps` is `breakpoints_`; `answers` is what the
  client was last told of each line (verified, pending, unmapped).
- A session has one launch, before or after any `setBreakpoints`. A launch
  without a program clears the symbols and leaves `bps` alone.
- Locations are bare names and lines. Which of two files of one name
  `resolve_source_path` finds depends on directories and is left out.

### SourceDelivery and the code

- `by_ref`, `by_path`, `next_ref` are `source_ref_to_content_`,
  `source_path_to_ref_`, `next_source_reference_`; `vref` is
  `virtual_lst_source_reference_`. A text is a version of a file or the listing from
  an address on.
- `StackTrace` is one of `FileFrame` and `ListingFrame`; `Source` fetches the text of
  the frame the client shows, at any time later, once for each reference. `Save` is
  anybody changing or removing a source file.

### IhxLoader and the code

- `upper_base`, `lowest_data_addr`, `explicit_entry` are the variables of the loop and
  `mem` is `ctx_.memory()`, zeroed by launch. Reading one line is one step; `file` remembers the lines, for the properties.
- A line is a record with its type and numbers. `count` bytes are announced, and the first
  `good` of them are hexadecimal: the loop stops at the next. A line the loop passes over is `other`.
- A byte in memory is the number of the line it came from, so that `MemoryIsImage` can say
  which line wins. `Word` is 2^16 and `Wide` its square, where `uint32_t` wraps.
- `BaseAt`, `Sources`, `Latest` say what the format means, from the whole file and without
  the loop: the reference the loop is compared with.

### SymbolFiles and the code

- One record read is one step. `data` is `data_.modules`, each with its functions, symbols, types
  and lines, as numbers of records in `cdb`, the file so far. `current_module` is the
  parser's, and is a name: the loops look for the first module that has it (`Named`, `First`).
- A record that `parse_line` leaves at once, whatever ails its text, is `other`; a line
  record whose file has a directory in its stem has the stem of no module.
- `symbols` are those of the MAP file; its segments are only counted, as `has_map` does.
- `Home`, `LocalsOf` and the rest of the properties' operators say where a record belongs from
  the whole file and without the loops: the reference the parser is compared with.
- `LookupLine`, `LookupSymbol` and `LookupSymbolExact` are `lookup_address` in the CDB,
  `lookup_symbol` and `lookup_symbol_exact`, the last two as recursive functions over
  the symbols, like the loops. `Word` is 2^16.

Left out of all modules: a request's sequence number, the grammar of JSON,
memory and registers other than the program counter, the text of answers.

## 3. Runs

| run | client | checks | states |
|---|---|---|---|
| `patient` | patient, `launch` and `configurationDone` in either order, sessions one after the other, fair scheduler | types, one stop at a time, the inductive invariant, stopped means halted, stop owed, settled is quiet, stop answers the request, numbering, breakpoints honoured by continue, breakpoints follow the symbols, refinement of `StopProtocol`, work runs out, every step reported, every request answered | 428 000 |
| `rough` | every habit at once: resumes before it heard the last stop, closes early, configures before it launches | responses one per request and in order, with two unanswered and orphans about | 896 000 |
| `next_breakpoint` | patient | violated: next runs past an instruction breakpoint | |
| `continue_budget` | patient | violated: continue's answer without a stop | |

| run | module | checks | states |
|---|---|---|---|
| `requests` | `SourceBreakpoints` | types, armed is requested, answers stay true, stops are shown where they were set but for two exceptions | 304 000 |
| `frames` | `SourceDelivery` | types, cache and index inverse, cache fresh, each frame shown with its own text | 818 000 |
| `listing` | `SourceDelivery` | violated: a listing shown as a file | |
| `map_only` | `SourceDelivery` | violated: no source line from a MAP alone | |
| `file` | `IhxLoader` | types, memory is the image, the entry point follows the file and is a byte loaded | 64 000 |
| `entry_default` | `IhxLoader` | violated: the entry point without a start address is 0x0000 | |
| `bytes` | `Connection` | types, reader in step, messages whole, nothing held back, an end has its cause, refinement of `RequestStream`, every frame answered | 660 000 |
| `symbols` | `SymbolFiles` | types, records and local symbols at home, the line found is the file's first, nearest symbol, C names preferred | 1 200 000 |

Bounds and why they are enough. `MCSucc` has four addresses: the reset address, the
entry, an address without a line and a second line behind a branch; with a budget
of 3 instructions a loop can reach a breakpoint in the first and in the last
iteration and can use its budget up. Two detached threads are one more than a
patient client ever has (`OneThreadSuffices` proves it). A backlog of 2 puts a request of each other kind beside a
resume. `MaxEvents` is the number of events of a session: initialized, entry stop and
two or three resumes, enough for a stop, its resume and the next. The run `rough` asks
about channels and threads, not the program: it executes `MCSpin`, with 3 events, one detached thread
and a backlog of 2, so that a request overtaken by a later one, or by what a handler or an orphan sends, shows.

`requests` chooses the symbols from every CDB of up to two lines and every MAP of up to one
symbol over two names, two lines and two addresses: two records can agree or differ in each field,
inside the CDB and across CDB and MAP, and a symbol can lie above the memory. Two of
the three paths have one bare name. `frames` has `FirstRef = 4` for the 1000 of the code:
listings count up to it and collide inside the bound `MaxRef`, and both files can be
cached. Three versions (`MaxSaves`) are one before and two after a launch.

`file` reads every sequence of up to four of eleven lines: enough for a base, two data lines that
overlap under different bases, and a start address, in any order. With `Word = 4` the
bases reach past the memory and the data wraps at the end of the address space.

`bytes` has buffers of two bytes: every message is longer than one, or ends inside it, so
refills, overflows and flushes fall on every boundary, and a read returns any part of what has
arrived. Two frames are one to be served and one to be read by mistake; their six kinds are
all that the code treats differently. One event is enough to race with an answer.

`symbols` reads up to five records, CDB and MAP together: two modules, or one name twice,
with the records of each kind before, between and after them. `Word = 4` puts symbols on both
sides of a 16-bit address.

Two runs are without a deadlock check. In `rough` the process is gone after `OrphanCrash`. In
`patient` a client that has lost the stop it waits for, in one of the two cases of `StopOwed`, and has sent
all it may send waits for ever, as it would; that nothing else waits is what the liveness properties say.

Fairness (`FairSpec`). Each thread that can run eventually runs: weak fairness of the
main thread and of every detached thread, as an operating system's scheduler gives it, and
weak fairness of the client reading its socket. Nothing makes the client send,
close or connect. `continue` is not promised a stop: its budget may end first; nor is the entry stop of a
client that configured before it launched (`EntryStopLost`).
`Connection` assumes the same of its two threads and nothing of the client or the network.

The first two violations are disagreements with the repository's own words:
`include/dap/dap.h:157` says of instruction breakpoints "Break on address.", and
`next.cpp:25-34` looks at source lines only; `docs/dap-samples/dap2:292-296` shows
`allThreadsContinued` followed by a stop, and `continue.cpp:21` gives up after
100000 instructions, after which nothing runs and no event comes. `StopOwed`
states the exact truth instead: a stop is under way unless that budget is used up, or the
client sent `configurationDone` ahead of `launch` and its entry stop stays pending
(`configuration_done.cpp:23` looks at the flag once, `launch.cpp:321` sets it later).
`stack_trace.cpp:52-53` says a new reference makes the client fetch the listing from the
current address; the 999th listing since launch has reference 1000, which may be a cached file
(`FramesShown` states what holds until then). `README.md:115` lists a MAP fallback for sources;
`stack_trace.cpp:24` asks for symbols only with a CDB file loaded.

`README.md:79-80` promises the entry point 0x0000 for a program without a start address, where
`launch.cpp:149-150` takes the lowest data address. `EntryFollowsFile` states what document and code agree on,
`EntryIsLoaded` that a well-formed file is entered at one of its bytes.

## 4. Proofs

All with TLAPS. `RunControl`: for every program (`Succ`), symbols, budget, backlog and number of
detached threads, from the assumptions `ProgramAssumption`, `SymbolAssumption` and
`BoundAssumption` of `RunControl` (TLC evaluates them in every run).

For every client, with any habits (`RunControlProofs`):

- `TypeCorrect`: `TypeOK`, inductive as it stands.
- `BreakpointsCorrect`: the armed addresses are those the
  loaded symbols give the lines asked for last. Not inductive alone: a launch without
  a program leaves the addresses untouched, which is right only because no symbols
  were loaded before the session's one launch. `OneLaunch` says so.
- `ContinueStopsAtBreakpoints`: in the loop of continue, the flag that ends it is
  set at every address it has reached that is armed (`StopFlag`); no request is served meanwhile
  that could arm another.
- `ResponsesOrdered`: `ResponsesInOrder` says it by counting, so that no induction over the
  channel is needed: the response at place i of the socket is to the request whose number in the
  client's ledger is the number of responses before i, plus one. `OrderInv` adds what a session starts with and
  what a closed one leaves. Taking the head of the socket lowers every count by one or by none
  (`ShiftedCount`, `AnswersShift`), appending to it changes none of those before it.
- `WorkIsFinite`: `Work` is what the main thread has left to do at most: a budget and four steps
  for each request in the socket, and the rest of the request in service. Every step of the main thread
  makes it smaller and leaves it a natural number; detached threads leave it alone. So the loops of
  `continue` and `next` end whatever the program does, without an appeal to fairness.

For a patient client (`Habits` at most `{"configFirst"}`):

- `OneStopAtATime`, `StoppedIsHalted`, `StopsAnswerRequests`, `EventsNumbered`.
  `AtMostOneStop` says nothing about why a second stop cannot start,
  so `PatientInv` adds what ties the parties together: the stop under way,
  wherever it is, is the one the client waits for (`ServesWaiting`); who is between
  load and store of the counter holds its current value (`CounterHeld`); until the session's one launch is
  served nothing has run and nothing but `initialized` is on its way (`LaunchFirst`), so the launch, which moves the program counter,
  finds the program in nobody's hands, whether the client has configured already or not;
  nothing of a session is left when the connection is closed (`NothingLeftBehind`).
- `PatientCorrect` is that invariant itself.
- `SessionsImplementStopProtocol`: from the same invariant, every step is a step of
  `StopProtocol` on `PhaseOf` and `pc`, or leaves both alone.
- `OneThreadSuffices`: each handler that starts a detached thread finds none running, since the client
  waits for one stop only. `Timer`, which the code does not have, so takes no behaviour away: the theorems
  about a patient client do not depend on how many threads the model allows.
- `NobodyLeftBehind` (`SettledIsQuiet`): a client with no response and no stop outstanding, which is all it can
  know, leaves no thread, no request unread and no handler when it closes. `PatientInv` has the threads (each
  belongs to a stop that is waited for) and `OrderInv` the rest (what is unread or served has no response yet).
  Only then is the pointer to `dbg` that detached threads hold harmless. A client that closes earlier does leave
  threads, and `rough` has what they do.
- `NoStopIsLost` (`StopOwed`): a stop the client waits for is in a request, a handler, a thread
  or the socket, but for the two cases of section 3. The entry stop takes the strengthening: a request that is sent once and not answered yet is still in the queue
  or was the last thing asked for (`QueueAsked`), and a launch that has asked for the entry stop stands until
  its `configurationDone` is served (`LaunchStands`).

For every buffer size, frames and messages of any length (`ConnectionAssumption`):

- `TypeCorrect`, `ReaderInStep`, `HoldsNothingBack`: from `Inv`, which is `TypeOK`, what the reader has
  read so far (`ReaderInv`, over `Rest`, the buffer followed by the socket) and what the
  writers have left (`WriterInv`). Moving bytes from the socket to the buffer leaves `Rest`
  alone, and every other step takes bytes from its front or adds a frame at its end.
- `EndsOnlyForCause`: from the same.
- `FramesWhole`: from `OutInv`: what was sent, what is in the buffer and what the writer has
  left are one stream of messages, as long as only one thread writes.
- `StreamImplemented`: every step is a step of `RequestStream` or leaves its variables alone. A
  payload is the body of the next frame, or the client has closed.
- `AnswersInOrder` (`AnswersFollow`): the other half of the dispatcher's promise. The answers among the messages written are to
  the requests served, each once and in order, and none is missing but that of the handler which is running or threw,
  whatever events the two threads write between them. The invariant is inductive because it also says that while a
  handler runs its request has no answer yet. With `FramesWhole` the client reads them so.
- `ConnectionAdvances` (`Advances`): every step of the server brings the reader on through what the client sent
  (`ReadWork`, in which a byte in the socket counts twice one in the buffer), or keeps that and brings a writer on through its
  message (`WriteWork`); only the client's frames add to the one, only an event or an answer begun to the other.
  So `underflow`, `overflow` and the loops of `read_message` and `send_message` end; that each read of the body takes
  at least a byte needs `BodyInv`.

For every symbol table, set of files and number of addresses (`SymbolsAssumption`):

- `ArmedCorrect`, `AnswersCorrect`: from `BreakpointsInv`, which adds that what was
  answered is still asked for (so a request for another file resolves it again) and that nothing
  is loaded before the launch (so every earlier answer was "pending" and stays harmless).
- `StopsAreShown`: from `ArmedCorrect` and the lemma `RoundTrip`: `lookup_source` undoes
  `lookup_address` in all symbol files, but for two cases. An earlier record has the same address: the compiler
  writes such records (`tests/data/ura.cdb:422-423`, `493-494`, `497-499`), and a breakpoint on the later line is
  shown on the earlier. Or the line's address is that of a MAP symbol above the memory, which only one of
  the two lookups cuts to 16 bits. The lemma `EarliestMatches` (a walk over the records ends at a match) needs
  a least element of a set of positions, taken from the well-foundedness of the
  strict subset order on finite sets.

For every program, set of files and first reference (`DeliveryAssumption`):

- `CacheIsInverse`: inductive with the types.
- `CacheIsFresh`: from `VersionInv`, which bounds the versions on disk by those at launch and now.
- `FramesAreShown`: from `DeliveryInv`: every text the client keeps is that of a listing
  it has seen or of a cached file, so the next listing's reference is new to it.

For every set of lines, files of any length and every width (`LoaderAssumption`):

- `LoaderCorrect`: the loop's variables are what the format says of the lines read
  (`LoaderInv`). Reading a line leaves the meaning of those before it alone
  (`ReadBases`, `ReadAddresses`) and becomes the last of its kind (`LatestIsNew`).
- `ImageIsRight`, `EntryIsRight`, `EntryHasByte` follow from it. The lemma `EntryFacts` has with `EntryIsRight` what
  the code does for a file without start addresses (`FallsBackToLowest`).

For CDB and MAP files of any length, any names and addresses (`SymbolFilesAssumption`):

- `RecordsKept`: from `HomeInv`. The list of modules is that of the M records, in
  their order, and the current module that of the last (`PlaceInv`); hence the first module of a name,
  which the loops find, is that of the first M record of the name, which the
  reference means (`FirstNamed`). A record read later changes nothing for those before it (`ModulesStay`),
  and the one read belongs where the loop puts it (`HomeOfNew`).
- `LocalsKept`: from `LocalsInv` and `LocalHome`: the module and function the loops of
  `parse_symbol` find are those of the reference. Of several modules of one name only the first has
  functions (`OnlyFirst`), which is why it does not matter that the loops go on past it.
- `FilesNamed` (`FileOfModule`, which says when a module's file is replaced), `LinesFound`: from `LineInv`, that a line is kept as its record has it. All
  line records of one stem belong to one module (`SameHome`), so the first line found is the file's first.
- `NearestFound`, `LabelFound`: the recursion over the symbols has a value (`LookupSymbolIs`), and at no
  first place does its invariant break. Least positions come from `FirstIs`, as above.

The type invariants of all modules are theorems, too: `TypeCorrect` twice, `BreakpointTypes`,
`DeliveryTypes`, `LoaderTypes`, `SymbolTypes`.

Model-checked only: the liveness properties, `StepsEndInStops`, `RequestsAnswered` and `FramesAnswered`,
which are out of the prover's reach, as is `ENABLED`. `WorkIsFinite` and `ConnectionAdvances` prove the part of
them that is a matter of safety: the steps that fairness promises use up a measure.

Proved only: `OneThreadSuffices`, `AnswersInOrder`, `ConnectionAdvances` and `FilesNamed`
state formulas no run lists. They were checked with TLC on the constants of `patient`, `bytes` and `symbols` before
they were proved.

## 5. Not modelled, and the plan

What could be added next: a proof that `Connection` and `RunControl` fit, that a `Take` and an `Emit` of the one
are the frames of the other. `AnswersInOrder` and `StreamImplemented` are the two ends of it.

Not modelled:

- the scopes and variables shown (formatting), and `readMemory`, whose one expression wraps for an address
  past the memory and ignores the offset: it changes nothing, and a unit test at the ends of memory reaches all of it;
- the directories `resolve_source_path` searches, raw binaries (one read into memory) and the search for files:
  the outcome is a choice or a constant where it matters;
- the four passes of `symbolize_disassembly` over one line of text;
- how a line of a symbol file is split into fields (regular expressions);
- the class `socket_stream`, which nothing uses;
- the Z80 instruction set, JSON, TCP and the file system, which are libraries, and the manifest of the editor
  extension.

# Formal model of ucx_playground

`src/cpp` holds small programs around the UCX communication library. The core is
a client and a server that find each other over a TCP socket, exchange UCX
addresses, send a test string with UCX tag messages, and shut down in an order
that does not leave the peer with a dead connection. They exist twice: as one
program with two roles (`ucp_hello_world_v2.cpp`) and as a pair
(`simple_ucp_server.cpp`, `simple_ucp_client.cpp`) over the same classes. The `-e`
option makes one side kill itself so that the other side's failure detection can
be watched.

This directory specifies that protocol in TLA+, model-checks it with TLC and
proves its safety properties with TLAPS.

## Inventory

| Part | Source | State | Operations | Interacts by |
|---|---|---|---|---|
| Helpers | `ucx_utils.cpp` | `completed` in UCX's request memory | `ucx_wait`, `flush_ep`, `ep_close(_err_mode)`, `barrier`, callbacks, `connect_*` | called by both runs; callbacks from UCX |
| Server run | `ucp_server.cpp` | `ret`, `ep_status`, buffer, endpoint | `runServer` | UCX messages to and from the client |
| Client run | `ucp_client.cpp` | the same | `runUcxClient`, `test_poll_wait` | UCX messages |
| Programs | `ucp_hello_world_v2.cpp`, `simple_ucp_*.cpp`, `hello_ucx.cpp` | configuration, context, worker, address, socket, `ret` | `main` | TCP socket, exit status |
| Command line | `print_utils.cpp`, `parse_cmd` of v2 | options | `parse_cmd` | by-value parameters, statics |
| Memory types | `memory_utils.*` | `test_mem_type`, one per source file | allocation, copy | statics in a header |
| Test string | `data_util.cpp` | the buffer | `generate_test_string` | its result is the message |
| Epoll demo | `hello_epoll.c` | stdio buffer, epoll set, `is_exit` | `main` | stdin |

Hard behaviour, and what must hold:

* **Callbacks and reused memory.** `ucx_wait` loops on a flag that a callback sets
  in memory UCX reuses and initialises only once. No wait may return before its own
  operation has ended, and no buffer may be freed under UCX.
* **Local completion.** A UCX send, and a flush, end before the receiver has the
  data. Only the barrier over the socket relates the two programs' ends: whoever
  reports success must know that the peer has closed its endpoint and that the
  string was printed.
* **One thread drives everything.** UCX acts only in `ucp_worker_progress`. If a
  program waits for the socket without calling it, the other one's close waits too.
* **Failures at every step.** Allocation, endpoint creation, a nonblocking call, a
  receive whose sender died, a broken transport, a closed socket, a killed peer. Each
  error path must close the endpoint and free the message buffer, and end; each `main` has five
  labels, and the one that a step fails to must release what exists at that point and no more.
* **Conversions.** The test string's length is a `long`, an `int`, and the size of two buffers in turn;
  a byte count becomes an exit status.
* **Two views of one stream.** `epoll` sees the kernel's buffer and `fgets` reads from stdio's.

The full list with lines is under `hazards` in `PROJECT.json`.

## Modules

| Module | Models |
|---|---|
| `UcxUtils` | the variables both programs share; callbacks, `ucx_wait`, the close; the part of UCX they call (external) |
| `UcpServer` | `UcpServer::runServer`, one action per step between two calls |
| `UcpClient` | `UcpClient::runUcxClient` |
| `HelloUcp` | extends the three: `main` of the three programs, the socket, `barrier`, the environment's faults, the specification and its properties |
| `HelloUcpInv` | the inductive invariant, in layers, and what a program that waits can count on (`WaitInv`) |
| `HelloUcpProofs` | the TLAPS proofs |
| `WaitProofs` | the proof that the two programs never wait for each other |
| `Connect` | `connect_common`, `connect_server`, `connect_client`: the loops over the address list, the descriptors and the list they leave |
| `Dial` | the life of the socket that connects the two programs, as an abstract specification that `Connect` and `HelloUcp` implement |
| `Transfer` | what the two programs promise together: printed, agreed, reported; `HelloUcp` implements it |
| `ConnectProofs` | the proofs about `Connect`, the implementation of `Dial` among them |
| `ParseCmd` | both `parse_cmd`s and `parse_mem_type`, and what `main` sees afterwards |
| `TestString` | extends `ParseCmd` by what becomes of `-s`: `generate_test_string`, the memory functions, the server's message and the client's copy |
| `ParseProofs`, `StringProofs` | the proofs about `ParseCmd` and `TestString` |
| `BringUp` | the four `main`s: what each step creates, the label it fails to, what the labels release, the exit status |
| `BringUpProofs` | the proofs about `BringUp` |
| `HelloEpoll` | `hello_epoll.c`, with stdio, the pipe or terminal, and epoll |
| `NatRecursion` | lemmas: induction over the naturals, least elements, functions defined by iteration |
| `HelloEpollProofs` | the proofs about `HelloEpoll` |
| `MCHelloUcp`, `MCConnect`, `MCParseCmd`, `MCHelloEpoll` | the sets of values that the `.cfg` files name |

`pc[p]` names the next statement of program `p`; the `goto` labels of the code
(`err_free_mem_type_msg`, `err_ep`, `err`) are the jumps to `"close"` and to
`AfterRun`. `ret[p]` is the C variable, in the end the exit status. `op[p]` is the
request that the program waits for (`req` FALSE: the call returned NULL or an
error pointer), `completed[p]` the flag in its memory. `sent[p]` follows the one
message each program sends: `none`, `flight`, `arrived` (a probe finds it),
`matched` (the probe removed it), `delivered`, or `lost`. The two TCP streams are
counters, since each carries a fixed sequence of items (address length, address,
the barrier's int).

What the model assumes of UCX, from how the code uses it:

* One call of `ucp_worker_progress` handles any number of events, each a step of
  its own; nothing happens outside the loops that call it (`Progressing`).
* A message is sent eagerly (the send ends at once) or by rendezvous (the send ends
  when the peer has received); the choice is arbitrary and fixed per message.
* `ucp_tag_msg_recv_nbx` always returns a request, since the code forbids immediate
  completion; the other calls may return NULL.
* A close without force, like a flush, ends when what was sent is acknowledged, which
  needs the peer to be in one of its progress loops. With peer error handling the
  close is forced.
* The peer's disappearance may be reported to any endpoint but *is* reported only
  with peer error handling. A closed endpoint of a living peer may be reported.
* At most one request per program is in flight, and UCX reuses its memory; this is
  the worst case for `completed`.

The server's `sleep(10)` may take any time. `printf` is left out except for the
client's printing of the string.

**`Connect`.** `pc[p]` names the call the loop makes next, `t[p]` is the position in the
address list and `kind[p]` the kernel's table of descriptors, with the lowest free number
handed out first. `usable[p]` are the addresses that can be bound or reached, an arbitrary set.
`sides` maps this to `Dial`'s `sock`: a program is `listening` while it is in `accept`, and
`connected` or `closed` by the result when the loop has ended. `HelloUcp` takes the same steps as
`ServerListen`, `ClientConnect` and `ServerAccept`, with the descriptor left out, and goes on to the end of the
connection; it implements `Dial` with its variable `sock`. So `Dial` is what the two modules agree on: the
server is connected only to a client that found it listening. `accept` may fail in both whether or not a
client is there (the descriptor table may be full).

**`Transfer`.** A program has `agreed` when it has written the barrier's int, and its `outcome` is what its exit
status will be once it is past the barrier. The steps allowed are few: the client prints, a program agrees (the client
after printing), succeeds once both have agreed, fails, or is killed.

**`ParseCmd`.** An option is what `getopt` returns: a letter, the word the code compares, the
number `atoi` or `atol` gives. `main` are the caller's variables and `param` the by-value
parameters of the `print_utils.cpp` version; `memType` has one entry per source file that
includes `memory_utils.h`. The `uint16_t` port is `% 65536`. The uninitialized test mode starts
with an arbitrary value, and the store through the server's null `server_name` is the death of
the program. That an accepted line turns the peer mode on exactly when it asks for a failure
(`PeerModeWithFailure`) is what lets `HelloUcp` keep both in the one variable `mode`.

**`TestString`** is evaluated on the length that an accepted line has left in `main`. A byte is a letter's number, 0, or junk
from an allocation; `IntValues` stands for 2^32, so that lengths on both sides of an int's limits are small numbers. The memory
functions are those of a build without CUDA and look at their own copy of `test_mem_type`, which `-m` does not set. The client's
copy is made with a length of its own (`ClientString`), for the client with the server's `-s` and for one with a shorter string.

**`BringUp`.** Each `main` is a disjunction of its steps in the order of the source, with the label a step fails to as an
argument, so that the differences between the programs are those of the code: `ucp_hello_v2` closes the socket, the simple server has no
label for its address, the client without a name leaves below the labels. `alive` is the set of handles that exist and
`failed` the step that failed. What the peer does is the result of a call, and `Run` and `Barrier` stand for what `HelloUcp` has in
detail; being killed is there too. `Run` has one effect that `HelloUcp` leaves out: `runServer` copies the client's address
(`ucp_server.cpp:91`) and no path frees the copy, so that it is left behind (`RunLeaves`).

**`HelloEpoll`.** The input is a sequence of units: a newline, the word "exit", other text. `Cap` units fill `buffer`, and stdio
reads `Block` at once. The writer is a pipe, which writes what and when it likes, and may close its end when it has written all,
or stay; or a terminal, where lines are entered at any time, also ahead of the program, and which never closes. A read
from a terminal returns at most one line, from a pipe whatever a block holds (`Reads`). `buffer` is a fresh local in each turn; when `fgets` stores nothing, the model
takes it to hold what the turn before left in the same place of the stack (before the first turn, not the word "exit").
The reference for what `fgets` returns is `Line(input, k)`, the k-th string of the whole input, whose ends are the recursive
function `LineEnd(input)`; the program never sees more of the input than a block.

## Model checking

**`HelloUcp`.** Every run uses both programs once, which is all there is: the code starts one
client and one server and each sends one message. The bounds are therefore in the
choice of options and faults, not in counters; `AddrLen` is one arbitrary positive
number since only its difference from 0 matters. `Faults` names what the environment
may do: fail a socket call, an allocation, an endpoint creation or a nonblocking
call, break the transport, lose the messages of a dead program, kill a program.
Deadlock is not checked: the programs end, and without `-e` one may rightly
wait forever for a dead peer.

| Run | Instance | Shows |
|---|---|---|
| `success` | no `-e`, no faults, both pairs and mixtures, eager and rendezvous | both programs end with 0 after the string is printed (liveness) |
| `faults` | all pairs of `-e`, all faults, any start order (about 2 * 10^6 states) | type invariant, the inductive invariant (`AllInv`, that is `IInv` and `WaitInv`), all safety properties below, and the implementation of `Dial` and `Transfer` |
| `peer_failure` | client with `-e`, server with the same or without; either is killed anywhere, broken transport, loss | a program with `-e` that has its endpoint ends, the client ends, the server's first loop ends unless its client is gone (liveness) |
| `send_failure`, `exchange_failure` | smallest that show it | disagreements below |
| `connect` | lists of 3 addresses, any of them usable, calls that work, server first | both sides get their connection if each has a usable address (liveness); -1 only after every address was tried |
| `connect_faults` | lists of 3, any start order, every call may fail | `Connect` implements `Dial`; only the connection stays open; `connect_common` frees its list; the inductive invariant |
| `options` | all lines of at most 3 of 21 options, three programs | what is accepted and then in force; the string that an accepted length gives; that a client whose `-s` is smaller than the server's gets one without an end |
| `port_option` | lines of at most one option | a disagreement below |
| `bringup` | four programs, every step may fail, an address of 300 bytes | handles exist when used; what `main` and the server's run leave behind; what the exit status tells |
| `epoll` | all inputs of up to 6 units, a buffer of 2, blocks of 4, pipe and terminal, calls may fail | the lines in order, whatever the timing; at a terminal none is left in stdio's buffer while the program waits, even if lines are typed ahead; nothing but "exit" ends the program, and it does so at a terminal, and behind a pipe once that is closed (liveness); the inductive invariant |
| `open_pipe` | one input of two lines, which fit into a block | a disagreement below |

Three addresses give a first, a middle and a last one, and the loop's state has no other memory than
its position. Three options give an option, one that comes between, and the same option again, with
the numbers on both sides of the port's limits and of an int of six bits; 30 is a length at which the alphabet starts again. The address
of 300 bytes is longer than what an exit status can count. With 6 units there are an "exit" line with lines before and after it, a
line longer than the buffer that ends in "exit", and more input than a block; a block is longer than the buffer, as in the program.

Safety properties of `HelloUcp`: `RemoteDisconnectedFirst` (a program that reports success
destroys its worker only after the peer closed its endpoint, what the comment at the
barrier promises), `SuccessMeansPrinted`, `ExitsAgree`, `PrintedWasReceived`,
`EndpointClosedFirst` and `BufferReleased` (no path out of a run leaks the endpoint or the message buffer; the server's copy of
the client's address is leaked, see `BringUp`), and the action
property `HeldUntilDone` (a pending operation's request and buffer stay).

`NoCircularWait` is the safety side of the liveness properties: as long as the transport works, the two programs are never both at a
statement that they cannot leave (`Waiting`), without an event that `ucp_worker_progress` has for one of them (`EventDue`).
It holds with all faults, a broken transport apart, and all pairs of `-e`, where the liveness properties need more. Two waits are
excepted, and both happen: the server's wait for `failure_handler` after a send that a nonblocking call refused, and
the wait of a server in keepalive mode for the death of a client that was started without `-e`, lives, and waits in the barrier.

`ExitsAgree` excludes failing socket calls because the barrier is two-sided: after
both sent their int, one `recv` may fail. `PeerFailureDetected` starts at
the creation of the endpoint: a server whose client dies before its address has
arrived probes forever, with or without `-e`, and `ProbeEnds` says that this is the only reason. A server without
`-e` whose send failed waits for `failure_handler`; UCX need not call it, so that nothing is said about the end of that loop, but
`AwaitedCanHappen` says that there is then a failure to report.

Each property was tested against a seeded bug in the modelled code (the operators
marked "Mutant"): a dropped reset of `completed`, a barrier without
`progress_cb`, a skipped barrier, a status not looked at, a wrong `goto`, ...

**Fairness.** A program takes its next step (the operating system runs it). The loops around
`ucp_worker_progress` receive each message on a working transport, see the end of each
operation that can succeed, and with peer error handling get the report of a broken transport
(`MustComplete`, `MustReport`): this is what the loops in the code wait for, and no more. The
environment's faults are never forced, and neither is a failure report without `-e`.

In `Connect` each program's own steps are weakly fair, and the client may start only once the server
listens, which is how the programs are to be started; `connect` and `bind` succeed on a usable address.

In `HelloEpoll` only the program is fair, and no call has to fail. Nothing is assumed of the writer: it may stop in the middle of its
input and leave its end open for ever. So `ExitEnds` states what it needs. The line "exit" must have been written; and, because
a line that stdio has read ahead is not seen by epoll, either the pipe is closed, which epoll reports for ever, or it is a terminal
and all lines fit into the buffer (`ShortLines`). `NoLineUnseen` is the reason for the second case: nothing is then in stdio's buffer
while the program waits. In the other cases it may wait for ever with "exit" in that buffer: behind an open pipe, which is
the run `open_pipe`, and at a terminal behind a line longer than the buffer, whose rest stdio has read with it.

## Disagreements between the code and what it says

* `send_failure`: `ucp_server.cpp:158` tests the failure mode the wrong way round. The comment
  in the other branch wants success reported when a failure was requested; the code
  returns -1 then, and without `-e` it returns 0 after waiting for a `failure_handler` that may never be called.
* `exchange_failure`: when the socket ends during the exchange of addresses, `recv` returns 0, which
  `main` returns after printing that it failed.
* `port_option`: `run_ucp_client` and `run_ucp_server` get `-p`, `-6`, `-s` and `-c` by value, so they change nothing.
* `open_pipe`: `hello_epoll.c:10` says that the program "reads input from stdin using read() and prints the read bytes". It calls
  `fgets`, so that two lines that arrive in one block are both read and only the first is printed; the second stays in stdio's buffer
  while the program sleeps in `epoll_wait` (`hello_epoll.c:39`), for ever if the pipe stays open, and also if it is "exit".

Seven more were seen while the code was modelled. The modules do what the code does; no run is spent on them:

* With `-e keepalive` the client kills itself after its probe and before the receive (`ucp_client.cpp:148`), not
  "after communication completed" (`print_utils.cpp:42`).
* The default string length is 4 (`ucp_hello_world_v2.cpp:61`), not 16 (`print_utils.cpp:16`).
* `-m` is the "Memory type of messages" (`print_utils.cpp:17`), but sets the `test_mem_type` of one source file only. The
  allocations look at another (`memory_utils.cpp`), and the server declares a third to UCX (`ucp_server.cpp:153`); neither changes. For the
  same reason `check_mem_type_support` always sees host memory and accepts `-m cuda` in a build without CUDA.
* `run_ucp_server -n x` stores through a null pointer (`print_utils.cpp:74`), where the usage text has it ignored.
* `ucp_hello_world_v2.cpp:251` names `-b` as the default test mode, but `ucp_test_mode` (line 102) is uninitialized without `-w`, `-f` and `-b`, and
  is read at line 121.
* `generate_test_string` returns 0, not "the length of the generated string" (`data_util.h:19`).
* With `-s 0`, which is accepted, there is no room for the terminating 0 that `printf` looks for in the server and in the client.

## Proofs

`HelloUcpProofs` proves, for every set of faults, options and programs, either start order and any
address length: type correctness, `HeldUntilDone`, `EndpointClosedFirst`, `BufferReleased`,
`RemoteDisconnectedFirst`, `SuccessMeansPrinted`, `PrintedWasReceived`, `ExitsAgree`, `AwaitedCanHappen`, and that `Dial` and `Transfer`
are implemented. The assumptions are those
on the constants: `Faults`, `Modes` and `Apps` are subsets of what exists and `AddrLen` is positive
(with length 0 the server would enter the run with status 0).

None of the properties is inductive. The invariant (`IInv`) has nine layers, each preserved by every step from
a state in which the earlier ones hold:

1. `TypeOK`.
2. `RequestInv`: a pending operation belongs to the wait its program is in, and `completed` is set
   only for an ended send or receive that has a request. It gives `HeldUntilDone`.
3. `ResourceInv`: the statements at which the endpoint is open, closing, closed, and the buffer allocated.
4. `StreamInv`: how many items each program has written and read at each statement. The barrier's `recv`
   can only return the peer's int.
5. `BarrierInv`: a program that wrote its int has closed its endpoint, and the client has printed; so
   has, then, the peer of a program that read it.
6. `MessageInv`: what is printed was matched and delivered.
7. `SocketInv`: the state of the socket at each statement, and that a connected program's peer had one. It gives `ImplementsDial`.
8. `AgreementInv`: what a program that has succeeded, failed or is still running says of the peer's barrier. It gives `ExitsAgree`.
9. `FailureInv`: a server whose send has failed waits for something: the transport is broken, the client is gone, or a
   nonblocking call was refused. It gives `AwaitedCanHappen`.

`WaitProofs` proves `NoCircularWait` with a second invariant on top of `IInv`. `WaitInv` says what a program that waits can count on:
its worker exists and it waits for the operation it issued, of whose end `ucx_wait` is told; a message is lost only with its sender
(`WaitOK`); who has not left its probe has not been handed the message (`ArrivalOK`); the client probes only after it has sent its address
and the server goes on only when it has received that (`AddressSent`); a server that closes without an error has sent the
string or knows of a failure (`StringSent`). The argument then goes by elimination. `BothProgress`: both are in loops that make
progress, since the exchange over the socket cannot stop with both waiting. `WhatIsLeft`: so nothing is in flight and
every receive, flush and graceful close can succeed. `PairsExcluded`: the pairs of statements that are left
contradict what the programs have sent and printed.

For `Transfer` each step is mapped: the end of the client's receive to `PrintString`, the barrier's send to `Agree`, its `recv` to `Succeed`
or `Fail`, leaving without the barrier to `Fail`, a kill to `Die`, and all others to a stutter. `StepKinds` sums up
the steps of the runs, so that the mapping looks only at what `Transfer` sees of them.

`Frame` shows that a step of one program leaves the other's variables alone, so that each layer is proved
for the program that takes the step.

`ConnectProofs` proves, for address lists of any length, any finite or infinite set of descriptors and any faults:
`OnlyConnectionOpen`, `ListFreed`, `AllAddressesTried` and the implementation of `Dial`. Its invariant (`IInv` of `Connect`) says
what the descriptor table holds at each call: the caller's descriptors and at most `sockfd`, whose kind
the next call determines. The implementation maps `ListenOn` to `Listen`, a connecting `ConnectTo` to `Connect`,
`AcceptOne` to `Accept` or `Hangup`, and every other step to a stutter; the
invariant is needed for the `connected` client that `Accept` asks for.

`ParseProofs` proves, for command lines of any length: type correctness, `PeerModeWithFailure`, `AcceptedInRange` and
`LastOptionWins`. The last needs the other parts of the invariant and one lemma (`StepEffect`): a step puts the
option it reads in force and leaves in force what options of other letters have set.

`StringProofs` proves, for any length and an int of any even number of values: `StringTerminated`, `StringIsAlphabet` and
`SameLengthNeeded` (the last byte of a message whose length an int holds is its only 0). `Narrowed` bounds what the conversion to int can do, and `MessageBytes` says what the message
holds: zero from the narrowed length on, because the buffer was cleared with the length that was not narrowed.

`BringUpProofs` proves, for an address of any length: type correctness, `HandlesAlive`, `LeftAtReturn` and `ExitTellsFailure`. The
invariant says which handles exist at each step on the way in, at least and at most which at each label, and
what `ret` is at the labels according to the step that failed; `client_addr` is there only once the server's run has begun.

`NatRecursion` holds what the proofs about recursive functions need. Induction is stated for a set (one that has 0 and every
successor has all naturals) and proved by the pigeonhole principle of `FiniteSetTheorems`; from it come least elements and
the existence of the function that iterates another one from a given value.

`HelloEpollProofs` proves, for any set of inputs of any length, any sizes of the buffer and of stdio's blocks, and any failing calls:
type correctness (the buffer is not overrun), `LinesInOrder`, `ReturnsOnExit` and `NoLineUnseen`. `LineEnd` is such an iteration
(`LineEndDef`), of the step to the one position where the next string ends (`NextEndExists`, `NextEndUnique`). The invariant has these parts:

1. `StreamInv`: stdio's buffer, the kernel's and what is not written yet are, in a row, the input behind the last
   string's end. So fgets, which looks only at stdio's buffer, stops where the string of the whole input ends (`FgetsCuts`,
   and `FgetsEndCuts` at the end of the stream, which needs that only a writer that has written all closes).
   It gives `LinesInOrder`.
2. `ExitInv`: the program's buffer is the last string, also after a NULL, and once it is "exit" the program is on its way
   out. It gives `ReturnsOnExit`.
3. `TerminalInv`: at a terminal whose lines fit, stdio holds at most one line, and only while fgets reads it. The read has stopped
   behind the line, and with `StreamInv` fgets takes the line whole (`StopsAtNewline`). It gives `NoLineUnseen`.

Every safety property that a run checks is proved. The disagreements are counterexamples, which TLC finds, and liveness stays
with TLC: the prover handles neither fairness nor ENABLED.

## Not modelled

* `test_poll_wait` and the branch for `ucp_worker_wait`: `runUcxClient` keeps the test mode in a local variable that is always
  `TEST_MODE_PROBE` (`ucp_client.cpp:72`), so that neither can run, whatever `-w` and `-f` have set.
* `hello_world_util.h`: no source file includes it.
* `main.cpp`: prints one line. The build files have no run-time behaviour.
* The branches for GPU memory: they are compiled only with CUDA and call into it directly.
* `initialize_ucp_params`, `initialize_ucp_worker_attr`, `initialize_ucp_worker_params`: they fill structures that UCX reads.
* A client whose `-s` is greater than the server's: it reads behind the message, which the `FIXME`s at `ucp_server.cpp:123` and
  `ucp_client.cpp:173` leave open. A smaller one is `SameLengthNeeded` in `TestString`.

## Plan

What could follow: the composition of `BringUp` with `HelloUcp` (the labels of one program while the other is still connected).

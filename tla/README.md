# Verification of the Trax server

TLA+ models of the Trax game server in `src/UPSServer` (C++) and of the networking
classes of the test client in `src/ups-client` (Java), the TLC configurations
that check them on small instances, and proofs of their most important
properties for every size.

## The system

The server keeps a list of players, lets two of them agree on a game, passes
their moves on and decides who won. It is one process with four threads that
share memory and talk through queues:

```
 clients --recv--> Server --packetQueue--> PacketManager --commandQueue--> CommandManager
    ^                 |                        |                               |
    |                 +---- PL_LOST notice ----+-----> commandQueue            | registerMessage
    +--send--- Sender <-------------------- pQueue ----------------------------+
```

| Component | State | Operations | What makes it correct |
| --- | --- | --- | --- |
| main | which threads run | initialises and starts the singletons, one after the other | no thread meets a queue that is not constructed |
| Server (`network/Server`) | `players`, a vector of pointers; `clientSocks` | accept a connection, read a message, notice that a client is gone; look-ups by socket and by name; `deletePlayer`; `proceedPlayerDisconnection` | names in the vector are unique; a descriptor belongs to one player; the right entry is erased; a loss is reported, once; nobody who is there is cut off |
| PacketManager | `packetQueue` | parse a packet, find its sender, push a command; count unreadable packets and cut the sender off at ten | the sender is found, and is the sender; the limit is kept |
| CommandManager | `commandQueue` | a handler per message: register, reconnect, log out, list, join, accept, decline, move, and the internal notice of a loss | every look-up of a game finds one; a player is in one game; requests are answered; an opponent learns of the end of the game |
| GameManager, Game | `games`, the board | `getGameByPlayer`, `getPlayersOponent`, `registerGame`, `deleteGame`, `isGameWon` | a closed loop is found, and nothing else is |
| Player | socket, name, flags, two pointers to other players | accessors | a lost player has no descriptor |
| ConcurrentQueue | a `std::queue` and a mutex | `empty`, `push`, `pop` | a FIFO channel; `pop` never meets an empty queue |
| Sender | `pQueue` | serialize a message, remember a descriptor, send | a message reaches the player it is for |
| Serializer, Message | none | format and parse | what is written is read back |
| Java client: networking | the field `NetworkManager.client`, sockets, listening threads, a buffer | connect, send, disconnect, read, format, parse | a connected client is listened to; what the server sends reaches the application; agrees with the server's format |
| Logger, MainOptions, the client's window | options | print, read the command line, draw | - |

The hard parts are the interleavings. `Server::players` has no lock and is read
and written by three threads; `proceedPlayerDisconnection` runs on any of the
three, reads `isInGame`, and acts on it later with an index it found before;
packets wait in a queue while the descriptor they came from is closed and
handed to the next client; `select()` answers about descriptors another thread
closes meanwhile; notices of lost players wait in a queue while the games they
are about end; a stream of bytes is read as if it were a sequence of messages.
The list with its lines is under `hazards` in `PROJECT.json`, each with the
properties about it or the reason why none is.

## The modules

The server at the grain of handlers:

* `ServerState` declares the shared memory, the look-ups made in it and the two
  steps of `proceedPlayerDisconnection`. One module per thread extends it.
* `Server`: `Accept`, `Receive`, `ClientGone`, and `DisconnectEnd("server")`.
  It also says what clients may send (`Expected`), which is not server code.
* `PacketManager`: `LookUp`, `Register`, `Unreadable`, `DisconnectEnd("pm")`.
  The look-up of the sender and the push of the command are separate steps.
* `CommandManager`: `NewPlayerConnection`, `Reconnection`, `Logout`,
  `GameEnding` (a logout in a game), `ListRequest`, `Joining`, `AcceptJoin`,
  `DeclineJoin`, `GameMove`, `PlayerLost`, `DisconnectEnd("cm")`, and the bad
  accesses `NullPlayer`, `NullAsking`, `NullGame`.
* `TraxServer` interleaves them and states what holds whatever happens.
* `TraxHistory` adds a variable, `races`, that only observes: which of seven
  unfortunate orders of the threads have been met. What the code relies on until
  one of them comes about is stated there, each property with the ones it does
  not survive.
* `TraxClaims` states what comments in the code say and the code does not keep.
  `MCTraxServer` and `MCTraxHistory` are the instances TLC checks.
* `NameRegistry` is the abstract specification of user names: a name goes to a
  connection when nobody holds it or its holder is lost, and a lost connection
  stays lost. `TraxServer` implements it, with the refinement mapping `Holds`
  (name and listed player that has it) and `Lost` (the marks).

The server at the grain of system calls:

* `Startup`: the calls of `main`, in order.
* `Delivery` extends it with the kernel's descriptors, the select loop (copy the
  set, call, return, serve one descriptor after the other; `FIONREAD` and `recv`
  are two steps), the disconnection in its four steps (`close`, `FD_CLR`, search,
  erase), the three queues and the Sender. Every packet, command and answer
  carries as a ghost the connection it is really from or for.

The parts:

* `ConcurrentQueue` at the level of the mutex, `Fifo`, the abstract channel it
  implements, and `MCConcurrentQueue`.
* `Board`, the squares and the winning test, with `MCBoard`.
* `Serializer` (the server's) and `JavaSerializer` (the client's), both as
  functions between messages and bytes; `Wire` puts a stream between them, in
  which a byte may be altered, a message cut, or followed by a piece of the next
  one; `MCWire` has the messages.
* `JavaClient`: `NetworkManager` and `TCPClient`: an application thread and one
  listening thread for each connection, on the field `client`. A connection is a
  stream of bytes, of which a read returns any part up to the size of the buffer.

`TraxServerProofs`, `TraxHistoryProofs`, `DeliveryProofs`, `ConcurrentQueueProofs`,
`BoardProofs`, `WireProofs` and `JavaClientProofs` hold the proofs;
`SequenceLemmas` facts about sequences and about functions defined by recursion.

Two grains are needed because each is out of TLC's reach with the other's
detail: `TraxServer` has all handlers, games and names, and goes on after a
race; `Delivery` has every system call, follows a behaviour up to the first race
(`Races`) and knows of a handler only whom it answers.

### How the state corresponds to the code

Player objects are never freed, so they are numbered in the order they are
allocated; a pointer is such a number, `NoConn` is `nullptr`. `players` is the
vector of pointers, `games` the vector of games (by value: nothing keeps a
pointer to a game between two commands). `clientSocks` is the set of open
client descriptors. `disc[t]` is what thread `t` holds in the middle of
`proceedPlayerDisconnection`: the player and the index it found and the answer
of `isInGame`. `races` is no state of the code (see below). `pmMess` is the message PacketManager holds between the look-up
and the push. `out` is the batch of messages the last step handed to the
Sender, and `crashed` names the bad access that ended the process, if one did.

In `Delivery`, `conn` is the kernel's table of descriptors, `inbox` the receive
buffers, `clientSocks` and `readSocks` the two sets of `Server::run`, `readSize`
the variable `FIONREAD` writes, `at` the place in the loop, and `down` what ended
the process or the race that ended the behaviour. In `JavaClient`, `client` is the
field, `socket[k]` and `listener[k]` the socket and the thread of object `k`, and
`thrown` the call that ended in a `NullPointerException`.

### What is abstracted

* In `TraxServer` a handler of CommandManager is one step. Its reads and writes
  of Player objects could interleave with the two other threads at a finer
  grain, which the two-step disconnection covers in part.
* Look-ups in `players` are atomic. Concurrent access to the vector without a
  lock is undefined in C++; below the level of whole look-ups the modules say
  nothing.
* `Delivery` ends with the first race: `reuse`, `accept` returns a number that a
  queued packet, a disconnecting thread or the answer of `select` still means
  another client by; `overlap`, two threads disconnect players at once; `nobody`,
  a disconnection finds no player and uses an uninitialised pointer. Its
  properties say what is right until then. A number that only queued answers
  still mean somebody by is handed out and the behaviour goes on. Players are
  outside games, every request is answered to its sender, sometimes with a
  message to somebody else besides (declining and moving write to the other
  player only), and any unreadable packet may be the tenth. `FD_SET` and
  `push_back` of a new connection are one step. The failure of a `setsockopt` is
  left out.
* In `TraxServer` the last unreadable packet, its count and the beginning of the
  disconnection it leads to are one step, `Unreadable`; `Delivery` has them apart.
  `FD_CLR` of a player who has no descriptor (`-1`) changes nothing; in the code
  it writes outside of the set.
* A client sends names, never the empty string, with which `getPlayerByName`
  would find a player who has no name yet.
* The headers H_C_NACK, H_C_ACK and H_C_PING are ignored by CommandManager; they
  are left out of `TraxServer`. In `Delivery` they appear where the code makes
  one of nothing: a `recv` that fails leaves the zeros of `memset`.
* A move carries no card in `TraxServer` and may win or not. `Board` has the card
  and the winning test.
* Undefined behaviour is a choice: the uninitialised `pl` of a disconnection
  that finds nobody is any player object or a crash, erasing past the end
  removes the last element or crashes, a missing `return` answers either value,
  the uninitialised `nameSet` lists or does not list a player without a name.
* What `deserialize` reads beyond the end of a packet is whatever the heap has
  there: all of it is the one outcome `BeyondEnd`. Strings of 2^31 bytes and
  more, whose length the code keeps in an `int`, are left out. Logging and the
  texts of exceptions are left out of the client.
* What a chunk of the stream contains is left out of `JavaClient`, and with it
  `setSerializing` and which method of the callback gets the chunk: whatever is
  thrown is caught in the loop, and no other state depends on it. So is
  `copyAndCut`, which returns the whole buffer (`TCPClient.java:89`): while
  serializing is on every chunk is refused, 1000 bytes against a stated size of
  at most 127. `Wire` gives the client's parser exactly the bytes that arrived,
  as the tests of the parser do, and not that buffer.
* `Board` follows the players' rules: a card is put on a free square next to
  another card. `processGameMove` takes any card and square, also one outside
  of the array.
* A read of `NetworkManager.client`, which is not volatile, sees the last write.
* The program never frees a Player; the bound `MaxConnections` is on how many
  are ever constructed.

### Clients

In `TraxServer`, with `Polite = FALSE` a client sends any message at any time.
With `Polite = TRUE` it follows the dialogue: it registers or reconnects once,
asks somebody else than itself, answers a request only after one was made,
moves when it is its turn, and waits for an answer before it goes on (a logout
may come at any time). What a client knows is read off the Player object of its
connection, so it may know a thing slightly before its message is sent. In
`Delivery` clients send requests, logouts and garbage and leave as they like.

## The runs

All TLC runs that pass explore the whole state space of their instance.

| Run | Checks | Instance |
| --- | --- | --- |
| `TraxDialogue` | `TypeOK`, `OnTurnIsPlayer`, `OneLossNotice`, `InGameHasGame` | 3 connections, 2 names, 3 descriptors, 2 messages in flight, no logout, polite clients |
| `TraxLogout` | `DescriptorsOwnedOnce`, `EveryDescriptorHasPlayer`, `EndIsAnnounced`, `IsNameRegistry` | the same with logouts, 2 descriptors, 1 in flight |
| `TraxAnyClient` | `NamesUnique`, `LostHasNoSocket`, `NoisyIsDropped`, `RequestIsAnswered`, `LossIsMarked` | 2 connections, one name, every message that can change state at any time, requests for the list, limit 1, 1 in flight, fair threads |
| `Delivery` | `TypeOK`, `PacketFindsSender`, `AnswerReachesAddressee`, `DroppedIsGone`, `EveryoneIsWatched`, `SelectFailureHasCause`, `QueueIsThere`, `RequestIsAnswered`, `GoneIsClosed` | 2 connections, 2 descriptors, 1 in flight, fair threads |
| `QueueFifo` | `HoldsLock`, `PopFindsItem`, `IsFifo`, `EveryItemIsTaken` | 2 producers, 2 pushes each |
| `BoardLoops` | `LoopIsWon` | every legal game on 2 by 4 squares |
| `Wire` | `ClientReadsBack`, `AlterationIsNoticed`, `PieceIsRefused`, `ServerReadsBack`, `PieceIsReadBeyond`, `ServerSumPasses` | every header and format, numbers and lengths on both sides of each limit |
| `JavaClient` | `TypeOK`, `ConnectedIsListening`, `ThrowHasCause`, `LiveIsKept`, `EndIsNoticed`, `SentIsReported` | 2 connections one after the other, 3 bytes over each, a buffer of 2 |

The kinds of race `TraxHistory` knows:

| Kind | What was met |
| --- | --- |
| `reuse` | `accept` returns the descriptor of a player whose disconnection another thread is in the middle of |
| `overlap` | a disconnection begins while another thread is in the middle of one |
| `nobody` | a disconnection begins with an entry that is not that of the descriptor just closed |
| `erasure` | a handler erases from the vector while a thread holds an index into it, or erases somebody connected |
| `renaming` | a player who has a name registers or reconnects under another |
| `late` | a command is handled after its player was erased |
| `anonymous` | a player without a name comes to be in a game |

No property is stated of fewer behaviours than it holds of: for each kind a
property names, TLC finds it violated when that kind is no longer named. For
`DescriptorsOwnedOnce`, for `EveryDescriptorHasPlayer` and two of its kinds, and for
`InGameHasGame` and `anonymous`, three connections are enough. The others take
four connections with three names, searched from a game in progress: a player is
reported lost twice after `overlap`, for instance, because the logout of somebody
who was erased finds nobody, and the uninitialised pointer is the player whose
disconnection the Server thread is in the middle of.

What they show:

* `NamesUnique` and `LostHasNoSocket` hold whatever clients do.
* `IsNameRegistry`: no order of registrations, reconnections, losses and
  disconnections passes a name on to another player unless it was free or its
  holder was lost.
* `DescriptorsOwnedOnce`: a listed player's descriptor is open and his alone; a
  reused descriptor does not find its previous owner, until `reuse`: CommandManager
  is between `close` and `removeSocket` of a logout, `accept` hands the descriptor
  out again, and what comes over it finds the player who is leaving.
* `EveryDescriptorHasPlayer`: whoever is connected is found by his descriptor. The
  two-step disconnection erases by an index it saved, so this ends with `overlap`
  (a second thread's index is stale), `nobody` (there is no index) and `erasure` (a
  handler thins the vector under the index, or erases somebody connected).
* `OneLossNotice`: a loss is reported once, until `overlap` or `nobody`.
* `OnTurnIsPlayer`: a reconnection replaces the player of a game and leaves
  `playerOnTurn` pointing to the lost object; the name, which is all the code
  reads from it, is still that of a player of the game. Not so after `renaming`.
* `InGameHasGame`: the handlers of a move and of a logout look a game up and
  dereference the result; for a connected player who is in a game there is one,
  until `late` or `anonymous`. (There may be none when the notice of a loss is
  handled, without any race: `LossHasGame` below.)
* `EndIsAnnounced`: whoever leaves a game without having asked for it is told.
* `NoisyIsDropped`: the limit on unreadable messages is kept although other
  threads disconnect the same client.
* `RequestIsAnswered` and `LossIsMarked` of `TraxServer`: a registration or a
  reconnection PacketManager has read is answered, and a player cut off in a
  game comes to be marked lost, unless the process ends first.
* `PacketFindsSender`: a queued packet is from the client its descriptor is open
  for, and the look-up finds that client's player, until one of the races.
* `AnswerReachesAddressee`: a request is matched with a player by the number of a
  descriptor, the player with a number when the answer is registered, and the
  answer with the wire by that number, each at another time. Whatever is closed
  and accepted in between, as long as the client who made the request is there the
  answer is queued for his descriptor. The answer to one who is gone may go to the
  next owner of his number: TLC reaches that, and the code does nothing about it.
* `DroppedIsGone`: no stale answer of `select` or of `FIONREAD` makes the Server
  thread take a client who is there for one who left.
* `EveryoneIsWatched`: an open connection is watched by `select` and its player is
  found, but while it begins or ends.
* `SelectFailureHasCause`: `select` fails, and the process exits, when it is called
  with a closed descriptor. There are two ways to that: another thread is between
  its `close` and its `FD_CLR` when the set is copied, or it closes and clears
  after the set was copied. TLC reaches both. The property says what they have in
  common: PacketManager or CommandManager has cut off somebody who logged out or
  sent garbage, and a descriptor that is still in `clientSocks` is one of theirs.
  Clients who leave, and the Server thread that notices it, never make it fail.
* `QueueIsThere`: the order of `main` is one in which no thread polls, or is handed
  a message for, a queue that is not constructed yet.
* `RequestIsAnswered` and `GoneIsClosed` of `Delivery`: what a client sends is
  answered on the wire, and a client who left is noticed, unless the process
  ends or a race happens first.
* `LoopIsWon`: closing a loop is always found, by whichever card, colour and
  direction. The other direction does not hold, see `WonIsLoop` below.
* `ClientReadsBack`: the client reads back what it wrote if and only if numbers
  fit in a signed byte, strings are ASCII and the message is shorter than 128
  bytes. `AlterationIsNoticed`, `PieceIsRefused`: it notices one altered byte
  unless it is off by 128, and takes neither a piece of a message nor a message
  with a piece of the next one for a message.
* `ServerReadsBack`: the server's parser reads back what its serializer wrote.
  `PieceIsReadBeyond`: of a message that arrives in pieces it reads memory
  behind the first piece, unless only the checksum is missing.
  `ServerSumPasses`: the two sides do not mean the same by a checksum.
* `ConnectedIsListening`, `ThrowHasCause`: outside of a call, a client that says it
  is connected is listened to but where connecting failed or the connection was
  reset, which nobody is told of; a `NullPointerException` out of a call has a
  cause in the network. `LiveIsKept`: a connection that is open on both sides
  leaves the field only when the application connects again, or when the
  listening thread of an older one reports an end that its server made; a thread
  that finds its socket closed by `disconnect` never does that to a newer one,
  for it does not call `clientOff`. `EndIsNoticed`, `SentIsReported`: the end of a
  connection clears the field, and what the server sent is handed to the
  callback, in whatever pieces it is read, also what it sent just before closing.

### Where the code does not do what its comments and tests say

| Run | Quoted line | What TLC shows |
| --- | --- | --- |
| `ClaimLossHasGame` | `CommandManager.cpp:331` | the notice of a loss finds the game deleted: null dereference |
| `ClaimReconnectionHasGame` | `CommandManager.cpp:101` | a lost player reconnects after his opponent won: null dereference |
| `ClaimReconnectedIsListed` | `CommandManager.cpp:76` | `deletePlayer` erases the new player, not the lost one |
| `ClaimFalseWin` | `CommandManager.cpp:234` | a missing `return` in `controlWhite`: any answer |

`CommandManager` also tells a player "Player who asked is gone" about one who is
connected, when requests cross: A asks B while B's own request to C is on its
way, B accepts A, and C accepts B. No text promises otherwise: the comment at
`CommandManager.cpp:188` only says what the branch is for.

### The bounds, and why they are enough

Three connections are two players of a game and a third object that reconnects
as one of them, or joins in between, or reuses a descriptor; two names leave
one for a conflict; two messages in flight let one overtake a disconnection
while another waits. These bounds are not enough for every behaviour: a fourth
connection lets `PlayerLost` erase two entries of the vector while a
disconnection is in progress and one more player is behind them. Such instances
are too large to run to their end; what the safety properties say of them rests on
the proofs, which are about any number.
With clients that send anything, two connections with one name conflict, and one
takes over the other. `BullshitLimit` is 10 in the code and 1 in the instances:
the count matters only at the limit. Names are interchangeable and declared
symmetric in the runs that check no liveness; descriptors are not, for `accept`
returns the lowest free one.

In `Delivery` two connections are one that ends while the other begins, sends or
is answered, and two descriptors let the second have a number of its own or the
first one's. `MaxInFlight` bounds what is in the three queues and the receive
buffers when a client sends; a disconnection and a handler's second answer go
beyond it. The proofs cover every size.

On two by four squares both loops of four and longer ones appear, in both
colours; the code does not depend on the size but for the border test. `Wire`
takes numbers around -128, 0 and 127, a character of one byte and of two,
strings that make a message of 127 and of 128 bytes, and numbers with four
different bytes; `MaxJoined` bounds how much of the next message comes along. In
`JavaClient` two connections one after the other let the listening thread of the
first clear the field of the second; three bytes and a buffer of two may be read
together or apart, and do not fit in one read. `Changes` are the alterations of a
byte: by the least, by one that changes no other bit, by 128, by the greatest.

Deadlock is checked in the queue's run only: elsewhere behaviours end when the
bound on connections is used up and all have left, when the process ended, when
the game is won, or when the message is read.

### Fairness

`FairSpec` of `TraxServer` is weak fairness of PacketManager and CommandManager,
which are endless loops over their queues, and of the end of a disconnection
the Server thread has begun. Nothing obliges a client to connect, send or
leave, so `Accept`, `Receive` and `ClientGone` have no fairness. In `Delivery` it
is weak fairness of `main` and of each of the four threads; the Server thread's
`select` returns when it has something to return, which is what the kernel
promises. In `ConcurrentQueue` the consumer loop and whoever holds the mutex go
on; no thread is promised the mutex against others who keep taking it. In
`JavaClient` a listening thread goes on, and a call that has begun is finished;
the application need not make one.

## The proofs

TLAPS checks these for every value of the constants, under the assumptions named
in `ServerState`, `Delivery`, `ConcurrentQueue`, `Board`, `JavaSerializer`, `Wire` and
`JavaClient`: bounds are natural numbers, `NoName` is no name, descriptors are
natural numbers, the consumer is no producer, a board has a square, the client's
buffer has room for a byte. Of messages:
`TextAssumption` says that the characters of a string take one byte or two,
`MessagesAssumption` that a message has a header of its side and the fields of its
format, with any int and any string, or any `uint32_t` and any bytes whose number
fits in an `int`, and that an altered byte is one of the other 255.

* `TraxServerProofs!TypeCorrect`: `Spec => []TypeOK`. `TypeOK` is not inductive:
  the index a disconnection saves is within 0..`MaxConnections` only because the
  vector is never longer than the number of objects constructed. `TypeInv` adds
  that, and that a thread in a disconnection holds a constructed object. One
  lemma per action.
* `TraxServerProofs!NamesAreUnique`, `LostIsDisconnected`, `NoisyAreDropped`: from
  the invariant `IInv`, which adds to `TypeInv`
  * `ListedOnce`, an object is in the vector at most once: without it a name
    given to an object could appear twice;
  * `NamesUnique` and `LostHasNoSocket` themselves, and `UnbornNotLost`;
  * `NoticeIsTrue`, a player with a queued notice of loss has no descriptor: the
    mark is set when the notice is handled, possibly long after;
  * `NoisyIsLeaving`, which is `NoisyIsDropped` of every object, listed or not.

  Most steps only thin the vector (`Thins`: entries disappear, none is added) and
  keep what the invariant reads of the objects (`Keeps`) and the disconnections
  in progress (`DiscGrows`); `QuietStep` disposes of these. The steps with an
  argument of their own are `Accept`, registration (the name was tested),
  `DisconnectEnd`, `PlayerLost`, and `Reconnection`, where the new object gets a
  name another entry has and `deletePlayer` then erases the first of the two:
  whichever that is, one is left.
* `TraxServerProofs!ImplementsNameRegistry`: under `IInv` a registration is a
  `Take`, a reconnection a `TakeOver`, and every other step a `Release` or a stutter.
* `TraxServerProofs!EndsAnnounced`: every step that takes a connected player out of
  a game tells him or was asked for by him. Under `IInv`: that the player of a
  notice has no descriptor is `NoticeIsTrue`, that an object not yet constructed
  has none is `UnbornNotConnected`.
* `TraxHistoryProofs` has one theorem for each property of `TraxHistory`. The
  invariants have the form of the properties, `Without(R) =>` a core; a step that
  meets a kind in `R` ends the claim, and of every other step the core is kept.
  `StepKinds` sorts the steps by what they do to the vector and the descriptors:
  `Accept`, the two halves of a disconnection, and the rest (`Elsewhere`), which
  only a handler among them uses to erase.
  * `OwnedUntilReuse`: `OwnedOnce` is inductive under `IInv`.
  * `EveryDescriptorIsServed`: `Orderly` (one disconnection at a time, of somebody
    who has a descriptor), `IndexIsRight` (the saved index is still his), and
    `HolderStays`, which strengthens the property by: and he is not leaving.
  * `LossIsToldOnce`: `Orderly` and `ToldOnce`. A notice is queued about somebody
    who had a descriptor, so none was queued before.
  * `OnTurnPlays`: `OnTurnSits`, the player on turn is one of the two by identity or
    by a name that is one; and `RequestsNamed`, every request carries a name.
  * `PlayersHaveGames`: `PlayersSit`, a connected player in a game has a name and a
    seat that is his own object. By name alone the look-up could find somebody
    else's game when names are taken over.
* `DeliveryProofs`: `TypeCorrect`, `PacketsFindSender`, `AnswersReachAddressee`,
  `DroppedAreGone`, `EveryoneWatched`, `SelectFailuresHaveCauses`, `QueuesAreThere`,
  from `IInv == TypeOK /\ StartupInv /\ (Up => Sound)`. None of the properties is
  inductive. `Sound` adds that the vector has each player once and each
  descriptor one connection (`VectorInv`, `ConnOnce`, `SockIsOwn`), that one
  thread at most is disconnecting somebody and what it has done by then
  (`OneBusy`, `DiscInv`), that nobody has the number in mind that `accept`
  returned (`AcceptedInv`), that the bit of a closed descriptor is about to be
  cleared (`DeadBitHasCloser`), who sent the packets, the commands and the
  contents of the buffers that are there to be cut off for (`PacketInv`,
  `CommandInv`, `InboxInv`), and that what `select`
  answered about an open descriptor stays true until it is served (`SelectInv`):
  data and ends of file do not go away, and a number closed meanwhile is not
  handed out again without the race `reuse`.

  Two invariants rest on it. `Attributed` is for `AnswersReachAddressee`: in each
  queue an entry belongs to somebody who has his object, and if he still has a
  descriptor it is the one of the packet or of the answer, and the player of the
  command is his. A step keeps it because no connection gets a number but the next
  one (`Steady`). `CutInv` is for `SelectFailuresHaveCauses`: PacketManager and
  CommandManager close only the descriptors of those who asked for it, a bit one
  of them still has to clear, or a closed number in the snapshot, means that
  somebody was cut off (`SomebodyCut`), and the Server thread, the only other one
  that closes, does so only while it serves a pass, never between the copy and
  the call.
* `JavaClientProofs`: `TypeCorrect`, `ConnectedListens`, `ThrowsHaveCauses`,
  `LiveStays`, from an invariant that says which objects have a socket and a
  listener (`MadeInOrder`, `FieldIsOpen`, `FieldIsListening`), where a call in
  progress can be (`CallInProgress`), and that only a server's end makes a
  listener clear the field (`ClearedByServer`).
* `BoardProofs!LoopsWin`: a move that closes a loop wins, on a board of any size.
  Inside a set of squares whose lines lead only to one another no call of
  `controlWhite` or `controlBlack` can answer no: by induction on how many calls may
  still be nested (`CallAnswersYes`, `LoopIsFound`), for every call marks a square
  that was not marked.
* `WireProofs`: all six properties of `Wire`, for messages of any length. The
  inductive invariant is `Sound`: what arrived is the message or what its fault made
  of it, and what was read is what the parsers make of what arrived (`SoundHolds`).
  It is simple; the work is in what the serializers compute.
  * `ChecksumIs`, `SumIs` and `FlatBytes` turn their recursive definitions into
    functions on 0..n with a first value and a step; `SumOfChecked`,
    `SumOfAltered` and `SumOfSigned` say what the sum of a message is, what an altered
    byte does to it, by however much, and what the client's sum makes of bytes of the server.
  * `ServerBytes` and `ClientBytes` say what all bytes of a message are,
    `ServerReads`, `ItemBeyond` and `ClientItemRead` what a parser does with one item.
  * `PiecesAreRefused` and `AlterationsAreNoticed` need only the size and the sum;
    `ServersReadBack` and `PiecesAreReadBeyond` follow the parser item by item along
    whatever agrees with a message as far as both go (`ServerReadsWhole`);
    `ClientsReadBack` shows that where an item does not fit in its bytes the
    message is not the one written, whatever is read afterwards.
  * `IntReadsBack`, `LongIsRefused` and `ItemReadsBack` say the same of single items.
* `SequenceLemmas!SetInduction` is induction over the natural numbers for a set, from
  the well-foundedness of `<`: no operator is a parameter. `Recursion`, `OneRecursion`
  and `Along` (such a function exists, is the only one, and what its steps keep
  holds along it), and `Flattening`, are what the proofs about data rest on.
* `ConcurrentQueueProofs`: `MutexProtectsQueue`, `PopIsDefined` and `ImplementsFifo`
  from an invariant that says who holds the mutex and that the answer of
  `empty()` stays true until the consumer acts on it, for it alone pops.

Every invariant and every action property of the runs that pass is stated by one
of these theorems, and so are the two refinements. Only model-checked: liveness
(`RequestIsAnswered` of both grains, `LossIsMarked`, `GoneIsClosed`,
`EveryItemIsTaken`, `EndIsNoticed`, `SentIsReported`), because fairness is about
`ENABLED`, which is out of the prover's reach.

## Not modelled

* Logger and MainOptions: output, and options read before any thread runs. No
  other part's state depends on them.
* The JavaFX window of the client has no behaviour of its own; the tests and the
  echo server were read as documentation.
* The failure of a `setsockopt` on a new connection, which ends the process.
* Memory-level races on the vector and on Player objects, which need a memory
  model; and, at the grain of system calls, what follows a race. `TraxServer`
  goes on after it at the grain of handlers.

## Plan

Done: everything above. Left, in this order:

1. The games in `Delivery`: the notice of a loss as an entry of `commandQueue`
   with its ghost.
2. That `TraxServer` is what `Delivery` does at its grain: the steps of the select
   loop as those of `Server`, up to the first race.
3. The safety parts of the liveness properties: what a request on its way can
   become in one step.

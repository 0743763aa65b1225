# ModbusDevices in TLA+

ModbusDevices is a Qt application for Windows that emulates serial devices. Each tab of its window
holds a form made with Qt Designer; a form is a Modbus RTU slave (with IO board logic) or a Tura
flow meter. A device is given a serial port and a baud rate, is started and stopped, and answers a
master on the line from what the user enters in the form. This directory models the threads,
handles, buffers and tables of that program, checks them with TLC and proves their invariants with
TLAPS. Paths below are relative to `src/ModbusDevices/`.

## 1. The system

| component | state | operations | interacts with |
|---|---|---|---|
| Port registry and polling thread (`DeviceModbus/ModbusControl.*`) | `modbus_list`: ports, each with its `devices`; `_mutex`; `_query` | `addDevice`, `removeDevice`, `findDevice`, `Modbus::open/close/poll`, `run` | called by the GUI thread through `DeviceModbus::switchOn/switchOff`; the polling thread calls libmodbus and the devices |
| Windows and tabs (`DeviceWidget.*`, `ModbusDevices.*`) | `in_work`, the tabs, combo boxes | open and close a tab, Start, Stop, close the window | own the devices |
| Emulated Modbus device (`DeviceModbus/DeviceModbus.*`, `IOBoard.*`, `RegisterModbus.*`) | four tables, the registers with their values, the widgets | `switchOn`, `switchOff`, `updateValues`, `updateWidgets`, `HandleRequest` | the polling thread reads and sets the widgets of the GUI thread |
| libmodbus server (`DeviceModbus/libmodbus/modbus.c`, `modbus-data.c`) | the tables | `modbus_reply` | called by `poll` |
| libmodbus RTU receiver (`modbus.c`, `modbus-rtu.c`) | the message so far, step, bytes to read | `modbus_receive` | the serial line |
| Tura device (`DeviceTura/`) | `_abort`, its thread, `_io_stat`, six registers with values and widgets | `switchOn`, `switchOff`, `run`, `processSession`, `serialRead`, `saveState` | GUI thread; the line through `CSerial` |
| `CSerialEx` over `CSerial` (`Serial/`) | handles, `m_hThread`, `m_fStopping`, `m_lLastError`, `m_eEvent` | `Open`, `Close`, `StartListener`, `StopListener`, `ThreadProc` | a client and a listener thread share the object; the driver |
| `CSerial` (`Serial/Serial.*`) | two handles, last error, events, event mask; behind them the driver's DCB, time-outs, mask and queue | `Open`, `Close`, `Setup`, `SetupHandshaking`, `SetMask`, `SetEventChar`, `SetupReadTimeouts`, `Purge`, `Read`, `Write`, `WaitEvent`, getters | its client; the driver, the line, another program that opens the port |
| `Value`, `Convert` | number, type, scale | conversions | the forms |
| libmodbus client API (`modbus.c`) | the call in progress; the port's input queue | reads and writes, `send_msg`, `check_confirmation`, error recovery | a server on the line; not called by the application |
| libmodbus TCP backend (`modbus-tcp.c`) | a socket number in each context; one transaction counter for all | connect, listen, accept, close, flush, the calls of the API | servers that answer late, in pieces or never; compiled, not called by the application |
| jsoncpp (`jsoncpp/`) | a value tree with comments; the reader's stack, errors, pending comments and last value | `Reader::parse`, `FastWriter`, `StyledWriter`, `StyledStreamWriter` | `DeviceWidget::load` reads the style sheets of forms; `DeviceModbus::load` hands them on as text |
| `CSerialWnd`, `SerialModbus`, Python, logger, settings | | | not used by the devices, or output only |

What is hard here:

- *Two threads, one registry.* The GUI changes the lists the polling thread iterates, frees devices
  that thread holds pointers to, and clears tables outside the mutex.
- *Two threads, one form.* The polling thread reads widgets one by one while the user edits them,
  and sets others.
- *A byte stream.* Masters pause, retry, and bytes are lost. A frame's length stands inside it;
  nothing is flushed after an error; partial reads must be forgotten.
- *Stopping.* Stop waits in the GUI thread for a thread that may be busy with a master, or asleep.
- *Answers without a number.* An RTU answer does not name its request; a client that has given up on a
  call finds its answer in the next one.
- *Shared and left-over state.* All TCP contexts draw their identifiers from one counter, a context keeps
  the number of a socket after it is closed, a serial driver keeps its settings when the port is
  closed, and a reader keeps bare pointers into the value it is building.
- *Half-done operations.* A port that does not open, an event that cannot be created, a form that
  does not load.

What makes each component correct: lists and handles agree and a device is served exactly while its
window says so (registry); confirmed writes stay and answers are recent (device); no access outside
tables and frames (server); no overrun, and a damaged frame costs only itself (receiver); Stop
returns and leaves nothing behind, only whole frames count (Tura); one listener on open handles, no
byte forgotten, Stop returns (`CSerialEx`); no handle lost, no setting reported that is not in force,
no byte lost without a reason the interface names (`CSerial`); a call returns an answer to its own
request only, and no socket is lost (TCP); a document is read as it is meant, and what is written is
read back equal but for the last digit of a double (jsoncpp). The hazards behind these are in `PROJECT.json`, each at
its line.

## 2. Modules

### ModbusPoll

The registry, the polling thread and the GUI thread. A `std::list` is a set of nodes with positions:
`push_back` takes a position above all others, removal leaves the other positions alone, iteration
goes to the next higher position (`First`, `EndPos`, `NextPos`). `upc`/`job` say which handler the
GUI is in and for which device, `ppc`/`cursor`/`pdev` where the polling thread is. One action is one
piece of code between two points where the other thread can act: `ClickStart`, then `ClearTables`
(the `memset` of `switchOn`, outside the mutex), then `UiLock`, then one of `AddToPort`,
`BaudDiffers`, `AddPort`, `OpenFails`; `ClickStop`, `CloseTab`, `DestroyDevice` and `LoadFails` lead
to `UiLock` and `RemoveDevice`, a destructor then to `FreeDevice`. `removeDevice` is translated with its
`break`: it looks at the first port only. A port that is open cannot be opened again, and a request
is only known by its slave address and by whether `poll` has a branch for it.

### ModbusMap, ModbusServer

`ModbusMap` is `modbus_reply` as operators: `Verdict` (the checks in their order), `Written`,
`Answer`, `Exception`. Addresses are any number, tables have `NB` cells, registers `W` values; the
limits of `modbus.h` are constants. `ModbusServer` puts it into `poll`: `Receive` (with
`IOBoard::HandleRequest`), `UpdateValue` register by register, `Reply`, `UpdateWidget` register by
register, while `UserEdits` happens at any moment. `Restart` is Stop and Start, whose `memset` clears
as many *bytes* as there are registers (`Cleared`). Functions 15 and 16 are neither carried out nor
answered, as in `poll`. `acked` and `seen` are history variables: what answers have confirmed to
the master, and what each widget has shown since the request came.

### RtuReceive

`receive_msg` on a stream of bytes: each action is one `select` and `recv` that takes 1 to
`length_to_read` bytes (`ReadSome`, `ReadFunction`, `ReadMeta`, `TooMany`, `ReadData`) or times out.
The two length functions are kept as they are. A CRC is right if and only if the whole message is a
frame a master sends (`Frames`), and has the length its header says; no frame can be left of another that
lost bytes (`CrcAssumption`: a CRC that misses no loss, while one of 16 bits misses a few). `owed` counts, for each frame, how often it was sent
whole and not yet returned. `patient`, chosen once, is the kind of the masters: those that pause and retry as they
like, or those that send without a pause inside a frame and wait for silence before the next.

### TuraSession

The thread of `DeviceTura` with one program counter per `serialRead` and per decision, against the
GUI (`ClickStart`, `ClickStop`, `Stopped`) and a master. `After` is what each reader does with what it
got. A time-out returns what has been read. Closing the port drops its input. `OpenFails` may leave the port open
(`lost`): the error of the last step of `CSerial::Open` is returned so, and `run` neither closes nor deletes it. Masters are of the same two kinds
(`patient`); what they send is told apart by its bytes (`ProtocolAssumption`: the codes 0x06 and 0x08 of
`DeviceTura.h` stand in commands only, 0x01 is an acknowledgement).

### TuraAnswer

The step `Answer` of `TuraSession` in detail: for each command the thread reads a widget and stores its
number (`ReadWidget`, `StoreValue`), register by register, and puts the values it finds there into bytes
(`EncodeCurrent`, `EncodeVolume`). The user edits the form between any two of these steps; when the window closes,
`saveState` reads the widgets into the *same* values (`SaveReads`) and saves them (`Saves`), while the device still
runs. A float is four bytes, with the integer and the fraction `modf` gives it; the conversion of an integer
that fits no `unsigned int` may give anything (`Overflown`). `shown` and `caught` are history variables.

### DeviceSwitch

What Start and Stop promise of any device, in one page: a switch that is off, starting, on or stopping, and a set
of devices being served, which is entered only by one that is on or stopping and left before it is off.
`ModbusPoll` implements it (`SwitchOf`: a working device whose handler is done is on; served is the device the polling
thread has found), and so does `TuraSession` (served while in a session). `SwitchesAsPromised` in both.

### CSerialEx

The port of `Serial/SerialEx.cpp`: a client's calls, cut where the listener can act in between, and
the listener of `ThreadProc`. The driver's wait is `waiting` (pending) or `recorded` (an event came
with no wait pending); `SetMask` completes a pending wait without an event. Both threads set
`m_lLastError`, as in the code: a transfer of the client can hide an error from the listener, or end
it. `StopListener` takes the end of its wait for the end of the thread: when the wait came to its
time-out or failed (`GiveUp`), the thread stays behind (`left`) and runs on, whatever the client does next;
`OneListener` and `HandlesHeld` say what still holds then. `left`, `due` and `broken` are history variables.

### ModbusClient

The client API over `ModbusMap` as the server, in its Windows form. A call goes through `Send` (or
`SendFails`, `SendNothing`, `SendAgain`), waits in `receive` and ends with `Receive`, `ReceiveBad`,
`TimeOut` or `ReceiveFails`; `pause` and `resend` are the sleeps of `_sleep_and_flush`, whose flush
(`FlushFileBuffers`) discards nothing that was received. Frames are whole on the line: delivered,
damaged or lost; behind a damaged one others may be swallowed. `own`, `seen` and `failures` are history
variables: whether the answer taken was the call's own, what the cells it reads have held, and which
calls have failed since the line was last silent.

### ModbusTransaction, ModbusTcp

`ModbusTransaction` is what a caller may rely on: a call begins, its request may reach a server, and it
ends with an answer to that request or with an error. `ModbusTcp` is the backend: `tcp_connect` and
`pi_connect` with the step at which they fail, `SendFails` with its loop and recovery, answers that
come whole, in pieces or late, the byte time-out inside a frame, the flush, and
`pre_check_confirmation`, which compares identifiers; `Listen`, `Accept` and their failures. Identifiers wrap, also
while answers are underway: the answer to a call a whole round of identifiers ago may then be taken, which
`ModbusTransaction` allows (`MayTake`) and nothing more. `OwnAnswers` is `ModbusTransaction`'s specification under the refinement mapping.

### CSerial

`Serial.cpp`: a method is one action, except `Read`, `Write` and `WaitEvent`, which start an operation of
the driver and block. Every system call may fail. A DCB is a format, the parity flag, the flags of
handshaking and the event character; each set-up changes its part (`WithFormat`, `WithHandshake`). What
survives `Close` in the object (`m_dwEventMask`, `m_eEvent`) and in the driver (`dcb`, `timeouts`)
survives in the model; another program may open the port in between and leave it as it likes. A
cancelled read has lost what it took; one whose wait failed goes on and takes bytes of later reads
(`swallow`), and so does one whose `CancelIo` failed (`CancelFails`). `asked`, `arrived`, `taken` and `excused` are history
variables: `asked` is what the client has been told, which after a `SetEventChar` that failed is that the
character and the mask are what they were or what was asked for (`AfterEventChar`).

### JsonValue, JsonReader, JsonWriter, JsonText

A `Json::Value` is a function from paths to nodes; `Assign` is `operator=`, which destroys the children
and keeps the comments, `Resolve` is `operator[]`. `JsonReader` works on tokens: `stack` holds the calls of
`readValue`, `readObject`, `readArray` and `recoverFromError` in progress with the path of their value
(`nodes_`), and each turn of their loops is an action. Only what the code can tell apart is in a token:
the class of each character of a string, whether a number is an integer, has a fraction, has one of 17 digits or
overflows, where new lines stand around comments. `JsonWriter` has the three writers as operators on tokens: `writeValue` is a recursive function over
the paths of a value that gives the calls the writer makes in their order, and `Do` what each does to the document; `StyledWriter` and
`StyledStreamWriter` are one text twice and differ in `writeIndent`. `JsonText` reads a document, has a
writer write the value and reads it again with the same reader. The documents of `MCJsonText` are
built together with their meaning, so what is meant is not computed by the reader's own rules.

### Proof modules and instances

`ModbusPoll_proofs` (with the reader of jsoncpp at its end), `ModbusServer_proofs`, `RtuReceive_proofs`, `TuraSession_proofs`,
`CSerialEx_proofs`, `ModbusClient_proofs`, `ModbusTcp_proofs`, `CSerial_proofs` hold the theorems; `TuraSession_proofs` has those about `TuraAnswer` too. `MC*`
modules hold instances for TLC. Operators named `Fault...` are faulty variants of the operator they
stand before; replacing the operator by the variant must break the property listed with it in
`PROJECT.json`.

## 3. Runs

| run | checks | instance and why it is enough |
|---|---|---|
| PollOnePort | `StoppedIsSilent`, `NoDanglingDevice`, `RegistryStable`, `SettlesDown`, `SwitchesAsPromised` | 2 devices with the *same* slave address, 1 port, 2 baud rates, lists of 3 positions, 1 waiting request: second device on a port, baud mismatch, reopening, iteration during changes, shared address |
| PollTwoPorts | `PortsInUse`, `WorkingIsServed` | 2 devices, 2 ports, 2 baud rates: what survives the `break` of `removeDevice` |
| PollStopSecond | `StoppedIsSilent` is *violated* | 2 devices, 2 ports |
| ServerForm | `MasterKnows`, `ReadsAreRecent`, `SummaryIsFresh`, `CoilsAreShown` | 3 cells of 2 bits; one form: a number in two holding registers, high half first, and in an input register, also named as a register that is written; a box that is coil and discrete input; a summary of 3 coils, of which the masters write the first and the last, over two registers of 2 bits, so that both registers and an unused bit occur; requests inside, across and outside the tables |
| RtuMasters | `NoOverrun`, `OthersArrive`, `Resynchronises` | three frames (4, 8, 11 bytes; one with a length field, one without meta part), buffer of 14; masters with pauses anywhere, and patient ones with many lost bytes: data bytes get into the length field |
| TuraMasters | `StoppedIsQuiet`, `StopReturns`, `PatientWholeFrames`, `PatientAnswered`, `AnswersAreRecent`, `SavedIsShown` | two instances in one run. Sessions: name of 2 bytes, both commands, an unknown one; masters with any pauses, and patient ones. Numbers: 2 of them, chosen so that sign, exponent, fraction and each of the three bytes differ and one is beyond 24 bits; all 6 registers, an edit before, inside or after an answer and before the window closes |
| ClientApi | all properties of `ModbusClient` | tables of 2 cells of 1 bit; reads of one and two coils (equal byte counts) and of one and two registers (different ones), two single writes of a coil, one to set and one to clear it, a write the server refuses, a read the client refuses; 2 frames underway, so that a late answer meets a new request; any losses and failures |
| SerialListener | all properties of `CSerialEx` but one | 2 thread handles, so that a second listener can be started while one still runs that a `StopListener` with a time-out gave up |
| SerialSilence | `StopAlwaysReturns` is *violated* | the same |
| TcpContexts | `SocketsHeld`, `OwnAnswers`, `ConnectTells` | 2 contexts, one with link and protocol recovery and one without, 2 socket numbers that are reused, 2 identifiers that come round, 3 calls, 2 frames underway: answers late, in pieces or never |
| SerialPort | `HandlesOwned`, `SettingsHold`, `NothingLost`, `ReadsReturn` | two instances in one run: settings (2 formats, 3 modes, 2 characters, 2 masks, one of them without the event of the character, no byte) and line (reads of 1 and 2 bytes, a queue that overruns, bytes that arrive during, before and after a read) |
| JsonText | `WellFormedIsRead`, `WrittenIsRead`, `PointersAlive`, `ErrorsFail`, `ParseReturns` | some 8000 documents, each read strictly and not: every kind of value at the edge of its type, doubles of 17 digits and an overflow among them, at the root, in an array and as a member; arrays and objects nested up to three deep with the empty name and one name twice; a comment of three kinds at any place, two in the small ones; a token left out or put in anywhere; lines of 3 elements |

Bounds. `MaxPos` bounds positions in lists (a removal at the end gives its position back); `MaxLine`
bytes or requests in an input queue (the sender waits); `MaxSent`, `MaxLost` frames and losses. They
stand in the guards of the environment or of `ClickStart` (`Room`) only. The names of Tura are 2
bytes in place of 8, registers 2 bits in place of 16, tables 3 cells in place of 65535: no guard
of the code depends on more than the boundary, which the small tables have as well. The receiver's run may
stop (all frames sent), the window of a Tura device has been closed, a client of `CSerial` may wait on a silent line for ever, and a document
has been read; these runs do not check deadlock. `MaxInt` is 19, so that a number below, at and above the
threshold of each integer type occurs with two digits; `MaxBytes` bounds the bytes on the serial line.

Fairness. *ModbusPoll*: the operating system runs both threads (weak fairness of their steps);
neither waits for the mutex for ever (strong fairness of the two lock actions), for the polling
thread sleeps at least 1 ms between rounds and the user is slower than that. `SettlesDown`
assumes that masters pause at last: the mutex is held while a line brings requests,
and under a master that never pauses nothing else is promised. *RtuReceive* (patient): the thread calls `modbus_receive` again, bytes in
flight arrive. *TuraSession*: both threads run, bytes in flight arrive. *CSerialEx*: both threads run, and a wait that was given a time-out comes to it; no byte is promised,
and `WaitCommEvent` may fail at any time. *ModbusClient*: the client reads
what has arrived, its time-outs and sleeps end, and a port that recovers takes a request at last
(strong fairness of `Send`; the send loop has no other end). *CSerial*: the driver hands over bytes it has, completes a read whose
condition holds, and a time-out expires. *JsonText*: a call of `parse` takes its next step; that its value
is written and read again is not promised. No master, user, server or byte is ever
assumed to act, and no failure is.

Proved and not run again, because a run's property or a stronger one stands for them: `ClearUndisturbed`
(`SwitchesAsPromised` implies it), `StatisticsAgree`, and the refinement of `DeviceSwitch` by `TuraSession`. That
requests are answered (*ModbusServer*) and calls of *ModbusTcp* return is not stated: their steps wait for
nobody but a time-out.

Properties that need a patient master say so (`patient => ...`). Without one a frame may be joined to the
remains of another, which is what the code does.

## 4. Disagreements

- **Stop on a second port** (PollStopSecond). `removeDevice` leaves its loop after the first port
  (`ModbusControl.cpp:130`): a device on another port stays registered and goes on answering, though
  the window has asked "Do you want to stop it anyway?" and shows it as stopped. All properties about
  stopping are therefore stated, checked and proved for one port (`OnePort`).
- **Lost wake-up** (SerialSilence). `SerialEx.cpp:180-182` says that setting the mask again completes the
  listener's wait. It does if the wait is pending. A listener between two waits misses it, and
  `StopListener(INFINITE)` on a silent line never returns.

Other things the models keep as the code has them, without a document that says otherwise: error
recovery on Windows does not discard a late answer, a single write is confirmed by any other, a write
of no byte makes `modbus_read_bits` return `nb` with `dest` unfilled (`SendNothing`), and an exception
to a read of no value has the length of an answer and is reported as bad data; multiple
writes (15, 16) are not answered; a restart clears half of each table; a register of function 6 sets an
input bit to its initial value; an error of the listener is hidden, or made, by the client's
`Read` (`broken` excludes the first from `Reported`); `Open` returns success when its event could not be
created (`EventFails`). Tura's answer to CurrentData sends 18 bytes of which the last four were never written
(`Stack`); a volume below zero is converted to `unsigned int`, which has no meaning; and `saveState` may save the number
the thread had read just before it began, not the one edited since (`caught`).

Of `CSerial`: `Open` applies the default settings only if two calls work, while `Serial.h` says they are
applied when the device has been opened; a failed `SetMask` inside `Open` is silent, so that
`GetEventMask` may name the mask of the session before; `Open` returns an error of `SetupReadTimeouts`
with the port left open, and a Tura device then holds it until the program ends (`lost`); `SetEventChar` leaves the mask
adjusted when it fails; after a `StopListener` whose time-out came first the thread may go on as a listener that
nothing names (`left`). Of the TCP backend:
`pi_connect` returns what the socket number of before says when every address fails. Of jsoncpp: `readArray` joins
two tests by "and", so `[1 2 3]` is read as `[1,3]`; `{"":1,}` is read; behind a comment any token is taken for
the comma of an object; a comment in an empty array or before a colon is refused though comments are
allowed, and a strict reader takes comments inside arrays and objects; text after the root is not looked at; an
integer at the very edge of its type is read as a double; `StyledWriter` drops the comments of
elements of an array it writes on one line (another "and"), writes the comment of a value on the line of the value
before, to which it belongs when it is read again, and so may displace that one's own; a zero ends a
string. `WrittenIsRead` compares values as `operator==` does, which no comment takes part in.
A double is written with 16 digits, so that one that needs 17 is read again as its neighbour; an
infinity, which an exponent that is too large makes, is written as `1.#INF` and zeroes (by the C library of Visual Studio
2013, with which the project is built), which is refused inside an array or object and read as 1 by itself.
`RegisterModbus::setConfig` returns true when it has set half of a register.

## 5. Proofs

All theorems hold for every value of the constants that satisfies the named assumptions of the modules
(`SlaveIdAssumption`, `MaxPosAssumption`, `NoneAssumption`; `TableAssumption`, `RegisterAssumption`,
`SummaryAssumption`; `AduAssumption`, `LengthAssumption` and `CrcAssumption` of the receiver; `FrameAssumption`
and `ProtocolAssumption` of Tura, `NumbersAssumption` of its answers; `ClientAssumption`; `TcpAssumption`; `SizesAssumption` and
`FormatsAssumption` of `CSerial`), which TLC evaluates on the instances of the runs.

- **ModbusPoll_proofs.** `Inv` = types, `LockInv` (who holds the mutex at which point), `HandlerInv`
  (what a handler relies on), `ScanInv` (the iterator stands at a listed node, the served device is
  registered), `PortsInUse`, `WorkingIsServed`. `LockInv` is why lists are stable during a round
  (`ListsAreStable`). With `OnePort`, `SingleInv` adds that registered devices are working ones or being
  removed, once each; from it follow `StoppedDeviceIsSilent`, `NoDanglingPointer`, `ClearIsUndisturbed`. `StartsAndStops` (`SwitchesAsPromised`) is the
  refinement of `DeviceSwitch`, action by action: a device is served only if it is registered, and a registered one
  is on, or stopping and not yet removed.
- **ModbusServer_proofs.** About `modbus_reply` for any request: it refuses exactly those that are not
  `Legal` (`RefusesExactlyIllegal`), and these change nothing; an accepted one names cells inside the tables, writes
  exactly these, and its answer fits a frame.
  `WritesAreKept` uses that the steps of `updateValues` touch only cells a widget feeds.
  - `BoxesAreTrue` (`CoilsAreShown`): the boxes of the registers *behind* the loop of `updateWidgets` show their
    coils (`BoxesOK`), and no coil changes but in `Reply`, with which the loop begins again.
  - `AnswersAreRecent` (`ReadsAreRecent`): the cells fed by registers behind the loop of `updateValues` hold the
    number their last feeder has read, which its widget has shown since the request (`FreshOK`). That a cell fed by
    several registers has a last one is `LastPosition`, from the well-foundedness of finite sets. The proof found the
    property wrong: `Feeds` counted the high address of a discrete input's register as fed, which
    `updateValues` ignores; it now says that a bit has no high part.
  - `SummaryIsTrue` (`SummaryIsFresh`): `SummaryOK` says that the summary registers no widget feeds hold
    `SummaryWord` from the request to the answer, and `SummaryBit` that bit k of that word is the coil it
    should be, for any width: the word is built by doubling and taken apart by halving, each a recursive
    function, and both are compared step by step (`StepByStep`, `PassesOn`).
- **RtuReceive_proofs.** `Inv` ties bytes read, step and bytes wanted together; the check in `ReadMeta`
  gives `NeverOverruns` for any stream. `WholeFramesArrive` (`OthersArrive`) needs to know, with a patient
  master, what the bytes in the buffer, on the line and still to be sent are (`PatientInv`): together the
  current frame as long as it lost none, of which the receiver wants no byte too many, because the frame has the
  length its own header says; otherwise the positions of the frame that are left, which by
  `CrcAssumption` are no frame.
- **TuraSession_proofs.** `Inv` adds that the buffer is empty outside reads (`BufferInv`), without which a
  byte could be counted twice. `OnlyWholeFrames` (`PatientWholeFrames`) needs `FrameInv`: what has been taken of the
  current frame and what is left of it are together no more bytes than the frame has, and as many only if no byte
  was lost and they are the frame itself. A step that compares what it read with a name or a code then has read all of it.
  - `StartsAndStops` is the refinement of `DeviceSwitch`: a session begins only while a thread runs, and Stop returns
    when there is none.
  - `NumbersAreRecent` (`AnswersAreRecent`) rests on `ReadInv` and `EncodeInv`: each value the thread has stored for its
    command, and each that `saveState` puts over it, was shown since the command, and the bytes of every register
    encoded so far stand for such a number. That they do is `FloatIsRead` and `WholeIsRead`, for any buffer and
    number; that a register leaves the bytes of the others alone is `FloatIsEncoded` and `WholeIsEncoded`.
  - `SavedNumbersAreShown` (`SavedIsShown`) rests on `SaveInv`: once `saveState` has read a widget its value is what the form
    shows or what had been caught, though the thread stores into it again.
- **CSerialEx_proofs.** `ClientInv` says what is open at each point of the client; its core is that the
  port is opened and closed only while no listener runs but those that were given up, also after a half-failed
  `Open`. `ThreadInv` says that a
  thread waits only while it runs and the port is open, and that those given up run on and are not `m_hThread`.
- **ModbusClient_proofs.** The inductive invariant (`Invariant`) says whose every frame underway is: a request or an
  answer is the current call's own, of which one is underway at most (`OneUnderway`), or belongs to a call
  like one that has failed (`SoundLine`); an own answer to a read carries what the cells held together at one
  moment of the call, an own confirmation of a write comes after the write. From it follow `LateTwins`, `TrueReads` and
  `DoneWrites` for any calls, recovery modes, losses and delays. It holds because a failed call stays in `failures`
  until nothing of it can be underway.
- **ModbusTcp_proofs.** `CallsAreTransactions` is the refinement: initial states map to initial states, and
  each step to a step of `ModbusTransaction` or to a stutter, from an invariant that says which answers can
  be underway with which identifiers. `NoSocketIsLost` needs who holds which socket at each step of
  a connect. `ConnectIsTrue` (`ConnectTells`) follows each way out of the two connect functions.
- **CSerial_proofs.** `IInv` adds to the two properties that records have their fields and that one program
  has the port at a time. The lemmas `FormatIsSet` and `HandshakeIsSet` say that a set-up is what its
  getter returns and leaves what the others return alone; `SettingsAreKept` rests on them. `NoByteIsLost`
  (`NothingLost`) rests on `LineInv`: what was returned, what a pending read has taken and what the queue holds are
  numbered upwards in this order, are all of the bytes that arrived as long as nothing is excused, and
  only an abandoned read, which is an excuse, can swallow more.

- **The reader of jsoncpp** (end of ModbusPoll_proofs; the two parts share nothing but the file). For any
  documents, well-formed or not, read strictly or not. `ReaderInv` adds to `PointersAlive` how the calls in progress
  lie in each other and in the value: the value of each call is one step below that of the call under it
  and all but the innermost read an object or an array (`CallsInv`); the value last read is not below one that is
  about to be read (`LastInv`). Reading a value assigns it, which destroys everything below it and
  nothing else (`Assign`); what is below it is not the value of its callers, and not the last value. From it follows `NoValueIsLost` (`PointersAlive`). `ErrorsAreTold` (`ErrorsFail`) needs
  `ErrorsInv`: there are errors in the list exactly while the innermost call has failed or is recovering,
  and a recovery that shortens the list again (`errors_.resize`) leaves the one it recovers from.

Model-checked only: every liveness property (temporal induction under fairness is beyond the prover), and
`WellFormedIsRead` and `WrittenIsRead`, which say what recursive definitions over documents and values compute:
the library's induction theorems cannot be used for that.

## 6. Not modelled

Raw requests of the client API; receiving requests on an accepted socket of TCP; opening and configuring a
device of RTU, the CRC's polynomial; scaled and floating-point numbers (`Value`, `Convert`); `CSerialWnd` and `SerialModbus`, which
nothing uses; `CheckPort` and a caller's own `OVERLAPPED` of `CSerial`; of jsoncpp the paths, iterators,
removal, ordering and conversions of `Value`, and the internal map and array, which are not compiled in;
`setConfig`; the settings, forms, logger and Python. Reasons are in `PROJECT.json`, `components`.

## 7. Plan

Written first, because the behaviour of the system rests on it: ModbusPoll, then ModbusMap and
ModbusServer, RtuReceive, TuraSession, CSerialEx, ModbusClient; then ModbusTransaction with ModbusTcp,
CSerial, and JsonValue, JsonReader, JsonWriter with JsonText; last DeviceSwitch and TuraAnswer. What could follow:

1. The receiver's steps for confirmations, so that `ReceiveBad` of `ModbusClient` follows from `RtuReceive`.
2. A further abstract specification: `Port` (closed, open, listening), implemented by `CSerialEx`.
3. `Value`: the integer conversions and their rounding as operators, checked over small ranges; `setConfig` over
   the values that were read.

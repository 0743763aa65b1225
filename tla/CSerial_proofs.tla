--------------------------- MODULE CSerial_proofs ---------------------------
(***************************************************************************)
(* What is proved of CSerial for any formats, masks, sizes and bounds: the *)
(* handles of the process are those of the object, the settings the client *)
(* was told of are those of the driver, and the bytes of the line are      *)
(* returned in order, none missing without a reason.                       *)
(*                                                                         *)
(* The settings are inductive once three more facts are known: the records *)
(* have their fields; no other program has the port while it is open here; *)
(* and the DCB is put together from the parts of single methods, which     *)
(* lemmas about WithFormat and WithHandshake say of each other.            *)
(*                                                                         *)
(* The bytes are: those returned, those a read has taken and those in the  *)
(* queue; what a read left behind takes is excused (LineInv).              *)
(***************************************************************************)
EXTENDS CSerial, SequenceTheorems, TLAPS

IsDcb(d) ==
  \E format, fParity, flags, evtChar :
    d = [format |-> format, fParity |-> fParity, flags |-> flags, evtChar |-> evtChar]

IsAsked(a) ==
  \E format, handshake, char, reads, mask_ :
    a = [format |-> format, handshake |-> handshake, char |-> char,
         reads |-> reads, mask |-> mask_]

RecordsOK ==
  /\ m_hFile \in BOOLEAN /\ m_hevtOverlapped \in BOOLEAN
  /\ handles \in [file : Int, event : Int]
  /\ IsDcb(dcb) /\ IsAsked(asked)

OneProgram == ~(m_hFile /\ other)

IInv == RecordsOK /\ OneProgram /\ HandlesOwned /\ SettingsHold

\* The getters as functions of a DCB.
FormatOf(d) == [d.format EXCEPT !.parity = IF d.fParity THEN @ ELSE "none"]
HandshakeOf(d) ==
  CASE d.flags.dtr = "handshake" /\ d.flags.rts = "handshake" -> "hardware"
    [] d.flags.outX /\ d.flags.inX -> "software"
    [] OTHER -> "off"

----------------------------------------------------------------------------
\* A format that was set is the one GetBaudrate and its like return, the
\* parity included, which a flag of the DCB turns off; and setting it leaves
\* handshaking and the event character alone.
LEMMA FormatIsSet ==
  ASSUME NEW d, IsDcb(d), NEW f \in Formats \cup {DefaultFormat}
  PROVE  /\ IsDcb(WithFormat(d, f))
         /\ FormatOf(WithFormat(d, f)) = f
         /\ HandshakeOf(WithFormat(d, f)) = HandshakeOf(d)
         /\ WithFormat(d, f).evtChar = d.evtChar
<1> DEFINE w == WithFormat(d, f)
<1>1. w = [format |-> f, fParity |-> f.parity # "none", flags |-> d.flags,
           evtChar |-> d.evtChar]
  <2> DEFINE parity == f.parity # "none"
  <2>1. PICK fm, fp, fl, ec :
          d = [format |-> fm, fParity |-> fp, flags |-> fl, evtChar |-> ec]
    BY DEF IsDcb
  <2>2. w = [d EXCEPT !.format = f, !.fParity = parity]
    BY DEF WithFormat
  <2> HIDE DEF parity, w
  <2>3. w = [format |-> f, fParity |-> parity, flags |-> fl, evtChar |-> ec]
    BY <2>1, <2>2
  <2>4. d.flags = fl /\ d.evtChar = ec
    BY <2>1
  <2>5. QED BY <2>3, <2>4 DEF parity
<1>2. /\ w.format = f /\ w.fParity = (f.parity # "none")
      /\ w.flags = d.flags /\ w.evtChar = d.evtChar
  BY <1>1
<1>3. IsDcb(w)
  BY <1>1, <1>2 DEF IsDcb
<1>4. FormatOf(w) = f
  <2>1. f = [baud |-> f.baud, bits |-> f.bits, parity |-> f.parity, stop |-> f.stop]
    BY FormatsAssumption
  <2>2. [f EXCEPT !.parity = f.parity] = f
    BY <2>1
  <2>3. CASE f.parity # "none"
    BY <1>2, <2>2, <2>3 DEF FormatOf
  <2>4. CASE f.parity = "none"
    BY <1>2, <2>2, <2>4 DEF FormatOf
  <2>5. QED BY <2>3, <2>4
<1>5. HandshakeOf(w) = HandshakeOf(d)
  BY <1>2 DEF HandshakeOf
<1>6. QED BY <1>2, <1>3, <1>4, <1>5

\* A handshaking mode that was set is the one GetHandshaking returns, whatever
\* mode the flags were of before; and setting it leaves the rest alone.
LEMMA HandshakeIsSet ==
  ASSUME NEW d, IsDcb(d), NEW mode \in Handshakes
  PROVE  /\ IsDcb(WithHandshake(d, mode))
         /\ FormatOf(WithHandshake(d, mode)) = FormatOf(d)
         /\ HandshakeOf(WithHandshake(d, mode)) = mode
         /\ WithHandshake(d, mode).evtChar = d.evtChar
<1> DEFINE w == WithHandshake(d, mode)
<1>1. w = [format |-> d.format, fParity |-> d.fParity, flags |-> HandshakeFlags(mode),
           evtChar |-> d.evtChar]
  BY DEF WithHandshake, IsDcb
<1>2. /\ w.format = d.format /\ w.fParity = d.fParity
      /\ w.flags = HandshakeFlags(mode) /\ w.evtChar = d.evtChar
  BY <1>1
<1>3. IsDcb(w)
  BY <1>1, <1>2 DEF IsDcb
<1>4. FormatOf(w) = FormatOf(d)
  BY <1>2 DEF FormatOf
<1>5. HandshakeOf(w) = mode
  <2> DEFINE g == HandshakeFlags(mode)
  <2>1. CASE mode = "hardware"
    <3>1. g.dtr = "handshake" /\ g.rts = "handshake" /\ ~g.outX
      BY <2>1 DEF HandshakeFlags
    <3>2. QED BY <1>2, <2>1, <3>1 DEF HandshakeOf
  <2>2. CASE mode = "software"
    <3>1. g.dtr = "disable" /\ g.outX /\ g.inX
      BY <2>2 DEF HandshakeFlags
    <3>2. QED BY <1>2, <2>2, <3>1 DEF HandshakeOf
  <2>3. CASE mode = "off"
    <3>1. g.dtr = "disable" /\ ~g.outX
      BY <2>3 DEF HandshakeFlags
    <3>2. QED BY <1>2, <2>3, <3>1 DEF HandshakeOf
  <2>4. QED BY <2>1, <2>2, <2>3 DEF Handshakes
<1>6. QED BY <1>2, <1>3, <1>4, <1>5

\* The default settings, as Open applies them.
LEMMA DefaultsAreSet ==
  /\ IsDcb(DefaultDcb) /\ FormatOf(DefaultDcb) = DefaultFormat
  /\ HandshakeOf(DefaultDcb) = "off" /\ DefaultDcb.evtChar = DefaultChar
<1> DEFINE d == [format |-> DefaultFormat, fParity |-> FALSE,
                 flags |-> DefaultFlags, evtChar |-> DefaultChar]
<1>1. IsDcb(d) /\ HandshakeOf(d) = "off" /\ d.evtChar = DefaultChar
  BY DEF IsDcb, HandshakeOf, DefaultFlags
<1>2. DefaultDcb = WithFormat(d, DefaultFormat)
  BY DEF DefaultDcb
<1> HIDE DEF d
<1>3. QED BY <1>1, <1>2, FormatIsSet

LEMMA GettersAgree ==
  GetFormat = FormatOf(dcb) /\ GetHandshaking = HandshakeOf(dcb)
BY DEF GetFormat, FormatOf, GetHandshaking, HandshakeOf

----------------------------------------------------------------------------
\* All that the invariant looks at; most steps leave it alone.
seen == <<m_hFile, m_hevtOverlapped, m_dwEventMask, handles, settings, mask, other, asked>>

LEMMA SeenUnchanged ==
  ASSUME IInv, UNCHANGED seen
  PROVE  IInv'
BY DEF IInv, RecordsOK, OneProgram, HandlesOwned, SettingsHold, seen, settings,
       GetFormat, GetHandshaking, GetEventChar

LEMMA FailsKeeps ==
  ASSUME IInv, NEW error, Fails(error)
  PROVE  IInv'
BY SeenUnchanged DEF Fails, seen, settings, input, ghosts

\* Handles, the port and its other user, when a step leaves them alone.
LEMMA PortUnchanged ==
  ASSUME IInv, UNCHANGED <<m_hFile, m_hevtOverlapped, handles, other>>
  PROVE  /\ m_hFile' \in BOOLEAN /\ m_hevtOverlapped' \in BOOLEAN
         /\ handles' \in [file : Int, event : Int]
         /\ OneProgram' /\ HandlesOwned'
BY DEF IInv, RecordsOK, OneProgram, HandlesOwned

LEMMA InvInit == Init => IInv
<1> SUFFICES ASSUME Init PROVE IInv
  OBVIOUS
<1>1. RecordsOK
  <2>1. IsAsked(asked)
    BY DEF Init, NothingAsked, IsAsked
  <2>2. IsDcb(dcb)
    BY DefaultsAreSet DEF Init
  <2>3. handles \in [file : Int, event : Int]
    BY DEF Init
  <2>4. m_hFile \in BOOLEAN /\ m_hevtOverlapped \in BOOLEAN
    BY DEF Init
  <2>5. QED BY <2>1, <2>2, <2>3, <2>4 DEF RecordsOK
<1>2. OneProgram /\ HandlesOwned /\ SettingsHold
  BY DEF Init, OneProgram, HandlesOwned, SettingsHold
<1>3. QED BY <1>1, <1>2 DEF IInv

----------------------------------------------------------------------------
\* An open closes what it has opened: the counts are those of before.
LEMMA OpenFailsKeeps == ASSUME IInv, OpenFails PROVE IInv'
<1>1. PICK step \in {"CreateFile", "CreateEvent", "SetupComm"}, fOverlapped \in BOOLEAN :
        handles' = HandlesAfter(step, fOverlapped)
  BY DEF OpenFails
<1>2. handles \in [file : Int, event : Int]
  BY DEF IInv, RecordsOK
<1>3. HandlesAfter(step, fOverlapped) = handles
  <2>1. PICK f \in Int, e \in Int : handles = [file |-> f, event |-> e]
    BY <1>2
  <2>2. FileOpened(handles) = [file |-> f + 1, event |-> e]
    BY <2>1 DEF FileOpened
  <2>3. EventOpened(FileOpened(handles)) = [file |-> f + 1, event |-> e + 1]
    BY <2>2 DEF EventOpened
  <2>4. EventClosed(EventOpened(FileOpened(handles))) = [file |-> f + 1, event |-> e]
    BY <2>3 DEF EventClosed
  <2>5. FileClosed([file |-> f + 1, event |-> e]) = handles
    BY <2>1 DEF FileClosed
  <2>6. QED BY <2>2, <2>4, <2>5 DEF HandlesAfter
<1>4. QED BY <1>1, <1>3, SeenUnchanged DEF OpenFails, seen, input, ghosts

LEMMA OpenKeeps ==
  ASSUME IInv, NEW fOverlapped \in BOOLEAN, NEW masked \in BOOLEAN, NEW timed \in BOOLEAN,
         NEW defaults \in BOOLEAN, Open(fOverlapped, masked, timed, defaults)
  PROVE  IInv'
<1>1. handles.file = 0 /\ handles.event = 0 /\ handles \in [file : Int, event : Int]
      /\ IsDcb(dcb)
  BY DEF IInv, RecordsOK, HandlesOwned, Open
<1>2. /\ handles' = [file |-> 1, event |-> IF fOverlapped THEN 1 ELSE 0]
      /\ m_hFile' = TRUE /\ m_hevtOverlapped' = fOverlapped
      /\ ~other'
  BY <1>1 DEF Open
<1>3. asked' = [format |-> {}, handshake |-> {}, char |-> {},
                reads |-> IF m_lLastError' = Success THEN {Nonblocking} ELSE {},
                mask |-> {}]
  BY DEF Open, NothingAsked
<1>4. dcb' = IF defaults THEN DefaultDcb ELSE dcb
  BY DEF Open
<1>5. RecordsOK'
  <2>1. IsAsked(asked')
    BY <1>3 DEF IsAsked
  <2>2. IsDcb(dcb')
    BY <1>1, <1>4, DefaultsAreSet
  <2>3. QED BY <1>2, <2>1, <2>2 DEF RecordsOK
<1>6. OneProgram' /\ HandlesOwned'
  BY <1>2 DEF OneProgram, HandlesOwned
<1>7. SettingsHold'
  <2>1. /\ asked'.format = {} /\ asked'.handshake = {} /\ asked'.char = {}
        /\ asked'.mask = {}
    BY <1>3
  <2>2. asked'.reads \subseteq {timeouts'}
    BY <1>3 DEF Open, Success, Failed
  <2>3. QED BY <2>1, <2>2 DEF SettingsHold
<1>8. QED BY <1>5, <1>6, <1>7 DEF IInv
\* A closed port holds nothing, and answers for no setting.
LEMMA CloseKeeps ==
  ASSUME IInv, CloseBoth, m_hFile, UNCHANGED <<settings, other>>
  PROVE  IInv'
<1>1. handles.file = 1 /\ handles.event = IF m_hevtOverlapped THEN 1 ELSE 0
  BY DEF IInv, HandlesOwned
<1>2. handles' = [file |-> 0, event |-> 0]
  BY <1>1 DEF CloseBoth
<1>3. ~m_hFile' /\ ~m_hevtOverlapped' /\ m_hFile' \in BOOLEAN /\ m_hevtOverlapped' \in BOOLEAN
  BY DEF CloseBoth
<1>4. IsAsked(asked')
  BY DEF CloseBoth, NothingAsked, IsAsked
<1>5. IsDcb(dcb')
  BY DEF IInv, RecordsOK, settings
<1>6. HandlesOwned'
  BY <1>2, <1>3 DEF HandlesOwned
<1>7. handles' \in [file : Int, event : Int]
  BY <1>2
<1>8. QED
  BY <1>3, <1>4, <1>5, <1>6, <1>7 DEF IInv, RecordsOK, OneProgram, SettingsHold

\* What a method sets in the DCB is what the getters return, and the parts
\* other methods answer for are as they were.
LEMMA SetupKeeps == ASSUME IInv, Setup PROVE IInv'
<1>1. CASE Fails(Failed)
  BY <1>1, FailsKeeps
<1>2. CASE \E f \in Formats : SetState(WithFormat(dcb, f), "format", f)
  <2>1. PICK f \in Formats : SetState(WithFormat(dcb, f), "format", f)
    BY <1>2
  <2>2. IsDcb(dcb) /\ IsAsked(asked)
    BY DEF IInv, RecordsOK
  <2>3. /\ IsDcb(dcb') /\ FormatOf(dcb') = f
        /\ HandshakeOf(dcb') = HandshakeOf(dcb) /\ dcb'.evtChar = dcb.evtChar
    BY <2>1, <2>2, FormatIsSet DEF SetState
  <2>4. /\ IsAsked(asked') /\ asked'.format = {f} /\ asked'.handshake = asked.handshake
        /\ asked'.char = asked.char /\ asked'.reads = asked.reads /\ asked'.mask = asked.mask
    BY <2>1, <2>2 DEF SetState, IsAsked
  <2>5. UNCHANGED <<m_hFile, m_hevtOverlapped, m_dwEventMask, handles, timeouts, mask, other>>
    BY <2>1 DEF SetState, input
  <2>6. SettingsHold'
    <3>1. HandshakeOf(dcb') = HandshakeOf(dcb) /\ GetHandshaking = HandshakeOf(dcb)
      BY <2>3, GettersAgree
    <3>2. SettingsHold /\ m_hFile
      BY DEF IInv, Setup
    <3>3. GetHandshaking' = HandshakeOf(dcb') /\ GetFormat' = FormatOf(dcb')
      BY DEF GetHandshaking, HandshakeOf, GetFormat, FormatOf
    <3>4. QED
      BY <2>3, <2>4, <2>5, <3>1, <3>2, <3>3 DEF SettingsHold, GetEventChar
  <2>7. QED BY <2>3, <2>4, <2>5, <2>6, PortUnchanged DEF IInv, RecordsOK
<1>3. QED BY <1>1, <1>2 DEF Setup

LEMMA HandshakingKeeps == ASSUME IInv, SetupHandshaking PROVE IInv'
<1>1. ASSUME NEW error, Fails(error) PROVE IInv'
  BY <1>1, FailsKeeps
<1>2. CASE \E mode \in Handshakes : SetState(WithHandshake(dcb, mode), "handshake", mode)
  <2>1. PICK mode \in Handshakes : SetState(WithHandshake(dcb, mode), "handshake", mode)
    BY <1>2
  <2>2. IsDcb(dcb) /\ IsAsked(asked)
    BY DEF IInv, RecordsOK
  <2>3. /\ IsDcb(dcb') /\ HandshakeOf(dcb') = mode
        /\ FormatOf(dcb') = FormatOf(dcb) /\ dcb'.evtChar = dcb.evtChar
    BY <2>1, <2>2, HandshakeIsSet DEF SetState
  <2>4. /\ IsAsked(asked') /\ asked'.handshake = {mode} /\ asked'.format = asked.format
        /\ asked'.char = asked.char /\ asked'.reads = asked.reads /\ asked'.mask = asked.mask
    BY <2>1, <2>2 DEF SetState, IsAsked
  <2>5. UNCHANGED <<m_hFile, m_hevtOverlapped, m_dwEventMask, handles, timeouts, mask, other>>
    BY <2>1 DEF SetState, input
  <2>6. SettingsHold'
    <3>1. FormatOf(dcb') = FormatOf(dcb) /\ GetFormat = FormatOf(dcb)
      BY <2>3, GettersAgree
    <3>2. SettingsHold /\ m_hFile
      BY DEF IInv, SetupHandshaking
    <3>3. GetHandshaking' = HandshakeOf(dcb') /\ GetFormat' = FormatOf(dcb')
      BY DEF GetHandshaking, HandshakeOf, GetFormat, FormatOf
    <3>4. QED
      BY <2>3, <2>4, <2>5, <3>1, <3>2, <3>3 DEF SettingsHold, GetEventChar
  <2>7. QED BY <2>3, <2>4, <2>5, <2>6, PortUnchanged DEF IInv, RecordsOK
<1>3. QED BY <1>1, <1>2 DEF SetupHandshaking

LEMMA MaskKeeps == ASSUME IInv, SetMask PROVE IInv'
<1>1. CASE Fails(Failed)
  BY <1>1, FailsKeeps
<1>2. ASSUME NEW m \in Masks, TakesMask(m), asked' = [asked EXCEPT !.mask = {m}],
             UNCHANGED <<m_hFile, m_hevtOverlapped, handles, settings, other>>
      PROVE  IInv'
  <2>1. /\ IsAsked(asked') /\ asked'.mask = {m} /\ asked'.format = asked.format
        /\ asked'.handshake = asked.handshake /\ asked'.char = asked.char
        /\ asked'.reads = asked.reads
    BY <1>2 DEF IInv, RecordsOK, IsAsked
  <2>2. SettingsHold'
    BY <1>2, <2>1 DEF IInv, SettingsHold, TakesMask, settings, GetFormat, GetHandshaking,
                      GetEventChar
  <2>3. QED BY <1>2, <2>1, <2>2, PortUnchanged DEF IInv, RecordsOK, settings
<1>3. QED BY <1>1, <1>2 DEF SetMask

LEMMA TimeoutsKeep == ASSUME IInv, SetupReadTimeouts PROVE IInv'
<1>1. ASSUME NEW error, Fails(error) PROVE IInv'
  BY <1>1, FailsKeeps
<1>2. ASSUME NEW reads, timeouts' = reads, asked' = [asked EXCEPT !.reads = {reads}],
             UNCHANGED <<m_hFile, m_hevtOverlapped, m_dwEventMask, handles, dcb, mask, other>>
      PROVE  IInv'
  <2>1. /\ IsAsked(asked') /\ asked'.reads = {reads} /\ asked'.format = asked.format
        /\ asked'.handshake = asked.handshake /\ asked'.char = asked.char
        /\ asked'.mask = asked.mask
    BY <1>2 DEF IInv, RecordsOK, IsAsked
  <2>2. SettingsHold'
    BY <1>2, <2>1 DEF IInv, SettingsHold, GetFormat, GetHandshaking, GetEventChar
  <2>3. QED BY <1>2, <2>1, <2>2, PortUnchanged DEF IInv, RecordsOK
<1>3. QED BY <1>1, <1>2 DEF SetupReadTimeouts, input

\* The masks that an adjusting SetEventChar which failed may have left.
Widened == asked.mask \cup {a \cup {RcvEv} : a \in asked.mask}

\* What the client knows after a SetEventChar, part by part.
LEMMA KnownAfterEventChar ==
  ASSUME IsAsked(asked), NEW c, NEW adjust \in BOOLEAN, NEW m, NEW error,
         asked' = AfterEventChar(c, adjust, m, error)
  PROVE  /\ IsAsked(asked') /\ asked'.format = asked.format
         /\ asked'.handshake = asked.handshake /\ asked'.reads = asked.reads
         /\ asked'.char = IF error = Success THEN {c}
                          ELSE IF asked.char = {} THEN {} ELSE asked.char \cup {c}
         /\ asked'.mask = IF ~adjust THEN asked.mask
                          ELSE IF error = Success THEN {m}
                          ELSE Widened
<1>1. PICK f, h, k, r, q :
        asked = [format |-> f, handshake |-> h, char |-> k, reads |-> r, mask |-> q]
  BY DEF IsAsked
<1> DEFINE ch == IF error = Success THEN {c} ELSE IF k = {} THEN {} ELSE k \cup {c}
           ma == IF ~adjust THEN q ELSE IF error = Success THEN {m}
                 ELSE q \cup {a \cup {RcvEv} : a \in q}
<1>2. asked' = [format |-> f, handshake |-> h, char |-> ch, reads |-> r, mask |-> ma]
  <2>1. CASE error = Success
    <3>1. asked' = [asked EXCEPT !.char = {c}, !.mask = IF adjust THEN {m} ELSE @]
      BY <2>1 DEF AfterEventChar
    <3>2. QED BY <1>1, <2>1, <3>1
  <2>2. CASE error # Success
    <3>1. asked' = [asked EXCEPT
                      !.char = IF @ = {} THEN @ ELSE @ \cup {c},
                      !.mask = IF adjust THEN @ \cup {a \cup {RcvEv} : a \in @} ELSE @]
      BY <2>2 DEF AfterEventChar
    <3>2. QED BY <1>1, <2>2, <3>1
  <2>3. QED BY <2>1, <2>2
<1>3. IsAsked(asked')
  BY <1>2 DEF IsAsked
<1>4. QED BY <1>1, <1>2, <1>3 DEF Widened

\* Whatever of a SetEventChar has failed, the character and the mask are among
\* those the client may then expect.
LEMMA EventCharKeeps == ASSUME IInv, SetEventChar PROVE IInv'
<1>1. PICK c \in EventChars, adjust \in BOOLEAN, got \in BOOLEAN, masked \in BOOLEAN,
           stated \in BOOLEAN :
        /\ IF got /\ adjust /\ masked
           THEN TakesMask(m_dwEventMask \cup {RcvEv})
           ELSE UNCHANGED <<mask, history, m_dwEventMask>>
        /\ dcb' = IF got /\ stated THEN [dcb EXCEPT !.evtChar = c] ELSE dcb
        /\ m_lLastError' = IF got /\ stated /\ (adjust => masked)
                           THEN Success ELSE Failed
        /\ asked' = AfterEventChar(c, adjust, m_dwEventMask \cup {RcvEv}, m_lLastError')
        /\ UNCHANGED <<m_hFile, m_hevtOverlapped, handles, timeouts, other>>
  BY DEF SetEventChar
<1> DEFINE m == m_dwEventMask \cup {RcvEv}
           done == got /\ stated /\ (adjust => masked)
<1>2. IsDcb(dcb) /\ IsAsked(asked) /\ m_hFile /\ SettingsHold
  BY DEF IInv, RecordsOK, SetEventChar
<1>3. done <=> m_lLastError' = Success
  BY <1>1 DEF Success, Failed
<1>4. /\ IsAsked(asked') /\ asked'.format = asked.format
      /\ asked'.handshake = asked.handshake /\ asked'.reads = asked.reads
      /\ asked'.char = IF done THEN {c}
                       ELSE IF asked.char = {} THEN {} ELSE asked.char \cup {c}
      /\ asked'.mask = IF ~adjust THEN asked.mask
                       ELSE IF done THEN {m}
                       ELSE Widened
  <2>1. asked' = AfterEventChar(c, adjust, m, m_lLastError')
    BY <1>1
  <2>2. PICK error : error = m_lLastError'
    OBVIOUS
  <2>3. asked' = AfterEventChar(c, adjust, m, error)
    BY <2>1, <2>2
  <2>4. IsAsked(asked)
    BY <1>2
  <2>5. /\ IsAsked(asked') /\ asked'.format = asked.format
        /\ asked'.handshake = asked.handshake /\ asked'.reads = asked.reads
        /\ asked'.char = IF error = Success THEN {c}
                         ELSE IF asked.char = {} THEN {} ELSE asked.char \cup {c}
        /\ asked'.mask = IF ~adjust THEN asked.mask
                         ELSE IF error = Success THEN {m}
                         ELSE Widened
    BY <2>3, <2>4, KnownAfterEventChar DEF m
  <2>6. done <=> error = Success
    BY <1>3, <2>2
  <2> HIDE DEF done, m
  <2>7. QED BY <2>5, <2>6
<1>5. /\ IsDcb(dcb') /\ dcb'.format = dcb.format /\ dcb'.fParity = dcb.fParity
      /\ dcb'.flags = dcb.flags
      /\ dcb'.evtChar = IF got /\ stated THEN c ELSE dcb.evtChar
  BY <1>1, <1>2 DEF IsDcb
<1>6. GetFormat' = GetFormat /\ GetHandshaking' = GetHandshaking
  BY <1>5 DEF GetFormat, GetHandshaking
<1>7. asked'.char # {} => GetEventChar' \in asked'.char
  BY <1>2, <1>4, <1>5 DEF SettingsHold, GetEventChar
<1>8. asked'.mask # {} => mask' \in asked'.mask /\ m_dwEventMask' = mask'
  <2>1. asked.mask # {} => mask \in asked.mask /\ m_dwEventMask = mask
    BY <1>2 DEF SettingsHold
  <2>2. CASE got /\ adjust /\ masked
    <3>1. mask' = m /\ m_dwEventMask' = m
      BY <1>1, <2>2 DEF TakesMask
    <3>2. asked'.mask # {} => mask' \in asked'.mask
      <4>1. asked.mask # {} => m \in Widened
        BY <2>1 DEF Widened
      <4>2. asked.mask = {} => Widened = {}
        BY DEF Widened
      <4>3. asked'.mask = IF done THEN {m} ELSE Widened
        BY <1>4, <2>2
      <4>4. QED BY <3>1, <4>1, <4>2, <4>3
    <3>3. QED BY <3>1, <3>2
  <2>3. CASE ~(got /\ adjust /\ masked)
    <3>1. mask' = mask /\ m_dwEventMask' = m_dwEventMask
      BY <1>1, <2>3
    <3>2. \/ asked'.mask = asked.mask
          \/ asked'.mask = Widened
      BY <1>4, <2>3
    <3>3. /\ asked.mask \subseteq Widened
          /\ asked.mask = {} => Widened = {}
      BY DEF Widened
    <3>4. QED BY <2>1, <3>1, <3>2, <3>3
  <2>4. QED BY <2>2, <2>3
<1>9. SettingsHold'
  BY <1>1, <1>2, <1>4, <1>6, <1>7, <1>8 DEF SettingsHold
<1>10. QED BY <1>1, <1>4, <1>5, <1>9, PortUnchanged DEF IInv, RecordsOK

\* While the port is closed here, whatever another program does to it binds
\* nobody: no setting is answered for.
LEMMA OtherKeeps == ASSUME IInv, OtherOpens \/ OtherCloses PROVE IInv'
<1>1. CASE OtherOpens
  BY <1>1 DEF OtherOpens, IInv, RecordsOK, OneProgram, HandlesOwned, SettingsHold, object,
              settings, ghosts
<1>2. CASE OtherCloses
  <2>1. PICK f \in Formats, mode \in Handshakes :
          dcb' = WithHandshake(WithFormat(dcb, f), mode)
    BY <1>2 DEF OtherCloses
  <2>2. IsDcb(dcb')
    BY <2>1, FormatIsSet, HandshakeIsSet DEF IInv, RecordsOK
  <2>3. ~m_hFile /\ UNCHANGED <<m_hFile, m_hevtOverlapped, handles, asked>>
    BY <1>2 DEF OtherCloses, IInv, OneProgram, object, ghosts
  <2>4. QED
    BY <2>2, <2>3 DEF IInv, RecordsOK, OneProgram, HandlesOwned, SettingsHold
<1>3. QED BY <1>1, <1>2

LEMMA InvNext == IInv /\ [Next]_vars => IInv'
<1> SUFFICES ASSUME IInv, [Next]_vars PROVE IInv'
  OBVIOUS
<1>1. CASE NotOpen
  BY <1>1, SeenUnchanged DEF NotOpen, seen, input, settings, ghosts
<1>2. CASE Close \/ Destroy
  <2>1. CASE m_hFile
    BY <1>2, <2>1, CloseKeeps DEF Close, Destroy
  <2>2. CASE ~m_hFile
    <3>1. UNCHANGED <<m_hFile, m_hevtOverlapped, handles, settings, other, asked>>
      BY <1>2, <2>2 DEF Close, Destroy, ghosts
    <3>2. QED
      BY <2>2, <3>1 DEF IInv, RecordsOK, OneProgram, HandlesOwned, SettingsHold, settings
  <2>3. QED BY <2>1, <2>2
<1>3. CASE OpenAgain \/ Get \/ GetModemStatus
  BY <1>3, FailsKeeps DEF OpenAgain, Get, GetModemStatus
<1>4. CASE OpenFails
  BY <1>4, OpenFailsKeeps
<1>5. CASE \E fOverlapped, masked, timed, defaults \in BOOLEAN :
             Open(fOverlapped, masked, timed, defaults)
  BY <1>5, OpenKeeps
<1>6. CASE Setup \/ SetupHandshaking \/ SetMask \/ SetEventChar \/ SetupReadTimeouts
  BY <1>6, SetupKeeps, HandshakingKeeps, MaskKeeps, EventCharKeeps, TimeoutsKeep
<1>7. CASE GetEventType
  BY <1>7, SeenUnchanged DEF GetEventType, seen, input, settings, ghosts
<1>8. CASE Purge
  BY <1>8, FailsKeeps, SeenUnchanged DEF Purge, seen, settings
<1>9. CASE Read \/ Write \/ WaitEvent
  <2>1. ASSUME NEW c, Begin(c) PROVE IInv'
    BY <2>1, FailsKeeps, SeenUnchanged DEF Begin, seen, input, settings, ghosts
  <2>2. QED BY <1>9, <2>1 DEF Read, Write, WaitEvent
<1>10. CASE TimeOut \/ NoResult
  BY <1>10, SeenUnchanged DEF TimeOut, NoResult, Returns, seen, settings
<1>11. CASE WaitFails \/ CancelFails
  BY <1>11, SeenUnchanged DEF WaitFails, CancelFails, Abandon, seen, settings
<1>12. CASE CompleteRead \/ CompleteWrite \/ CompleteWait
  BY <1>12, SeenUnchanged
     DEF CompleteRead, CompleteWrite, CompleteWait, object, seen, input, settings, ghosts
<1>13. CASE Fill
  BY <1>13, SeenUnchanged DEF Fill, object, seen, settings, ghosts
<1>14. CASE Arrive
  BY <1>14, SeenUnchanged DEF Arrive, object, seen, settings
<1>15. CASE OtherOpens \/ OtherCloses
  BY <1>15, OtherKeeps
<1>16. CASE UNCHANGED vars
  BY <1>16, SeenUnchanged DEF vars, object, seen, input, settings, ghosts
<1>17. QED
  BY <1>1, <1>2, <1>3, <1>4, <1>5, <1>6, <1>7, <1>8, <1>9, <1>10, <1>11, <1>12, <1>13,
     <1>14, <1>15, <1>16 DEF Next, Client, Driver

----------------------------------------------------------------------------
\* The strengthened invariant of the port holds in every reachable state.
THEOREM Invariant == Spec => []IInv
<1>1. Init => IInv
  BY InvInit
<1>2. IInv /\ [Next]_vars => IInv'
  BY InvNext
<1>3. QED BY <1>1, <1>2, PTL DEF Spec

\* However its Opens fail and whatever is closed when, the process has open
\* exactly the handles the object names (Open and Close of Serial.cpp).
THEOREM NoHandleIsLost == Spec => []HandlesOwned
<1>1. IInv => HandlesOwned
  BY DEF IInv
<1>2. QED BY <1>1, Invariant, PTL

\* A setting the client was told is in force is in force, or one that a failing
\* SetEventChar has left it to expect, for any sequence of set-ups, any formats,
\* characters and masks (Setup, SetupHandshaking, SetMask, SetEventChar,
\* SetupReadTimeouts and Open of Serial.cpp).
THEOREM SettingsAreKept == Spec => []SettingsHold
<1>1. IInv => SettingsHold
  BY DEF IInv
<1>2. QED BY <1>1, Invariant, PTL

----------------------------------------------------------------------------
(* The bytes.  Those a read has returned, those the read in progress has   *)
(* and those still queued are in the order of the line; and unless a loss  *)
(* is excused they are all that arrived.                                   *)

Rising(s)   == \A i, k \in 1..Len(s) : i < k => s[i] < s[k]
Before(s, t) == \A i \in 1..Len(s), k \in 1..Len(t) : s[i] < t[k]
UpTo(s, n)  == \A i \in 1..Len(s) : s[i] <= n

InOrder(t, b, q, n) ==
  /\ Rising(t) /\ Rising(b) /\ Rising(q)
  /\ Before(t, b) /\ Before(t, q) /\ Before(b, q)
  /\ UpTo(t, n) /\ UpTo(b, n) /\ UpTo(q, n)

BytesOK ==
  /\ arrived \in Nat
  /\ taken \in Seq(Nat) /\ queue \in Seq(Nat) /\ Buffer \in Seq(Nat)
  /\ Reading => call = [op |-> "read", finite |-> call.finite, n |-> call.n,
                        buf |-> call.buf]

\* An abandoned read that takes bytes is an excuse.
SwallowExcused == swallow > 0 => excused

Whole == taken \o Buffer \o queue = [i \in 1..arrived |-> i]

LineInv ==
  /\ BytesOK /\ InOrder(taken, Buffer, queue, arrived) /\ SwallowExcused
  /\ excused \/ Whole

LEMMA EmptyBytes ==
  /\ << >> \in Seq(Nat) /\ Len(<< >>) = 0
  /\ Rising(<< >>) /\ \A n : UpTo(<< >>, n)
  /\ \A s : Before(<< >>, s) /\ Before(s, << >>)
<1>1. << >> \in Seq(Nat) /\ Len(<< >>) = 0
  BY EmptySeq
<1>2. 1..0 = {}
  OBVIOUS
<1>3. QED BY <1>1, <1>2 DEF Rising, UpTo, Before

\* Bytes that are given up leave the others in order.
LEMMA FewerInOrder ==
  ASSUME NEW t, NEW b, NEW q, NEW n, InOrder(t, b, q, n),
         NEW c \in {b, << >>}, NEW r \in {q, << >>}
  PROVE  InOrder(t, c, r, n)
BY EmptyBytes DEF InOrder

\* The bytes of a sequence that is not empty: the first, and the rest.
LEMMA FirstAndRest ==
  ASSUME NEW q \in Seq(Nat), q # << >>
  PROVE  /\ Tail(q) \in Seq(Nat) /\ Len(q) \in Nat \ {0} /\ Len(Tail(q)) = Len(q) - 1
         /\ Head(q) = q[1] /\ Head(q) \in Nat
         /\ \A i \in 1..Len(Tail(q)) : Tail(q)[i] = q[i + 1] /\ i + 1 \in 1..Len(q)
         /\ 1 \in 1..Len(q)
<1>1. Len(q) \in Nat \ {0}
  BY EmptySeq
<1>2. /\ Tail(q) \in Seq(Nat) /\ Len(Tail(q)) = Len(q) - 1
      /\ Head(q) \in Nat
      /\ \A i \in 1..Len(Tail(q)) : Tail(q)[i] = q[i + 1]
  BY HeadTailProperties
<1>3. Head(q) = q[1]
  BY <1>1
<1>4. (\A i \in 1..Len(Tail(q)) : i + 1 \in 1..Len(q)) /\ 1 \in 1..Len(q)
  BY <1>1, <1>2
<1>5. QED BY <1>1, <1>2, <1>3, <1>4

\* The oldest byte of the queue is swallowed.
LEMMA TailInOrder ==
  ASSUME NEW t, NEW b, NEW q \in Seq(Nat), q # << >>, NEW n, InOrder(t, b, q, n)
  PROVE  InOrder(t, b, Tail(q), n)
<1>1. /\ \A i \in 1..Len(Tail(q)) : Tail(q)[i] = q[i + 1] /\ i + 1 \in 1..Len(q)
  BY FirstAndRest
<1>2. \A i, k \in 1..Len(Tail(q)) : i < k => i + 1 < k + 1
  BY FirstAndRest
<1>3. Rising(Tail(q))
  BY <1>1, <1>2 DEF InOrder, Rising
<1>4. Before(t, Tail(q)) /\ Before(b, Tail(q)) /\ UpTo(Tail(q), n)
  BY <1>1 DEF InOrder, Before, UpTo
<1>5. QED BY <1>3, <1>4 DEF InOrder

\* A byte that is later than all of a sequence goes at its end.
LEMMA LaterAtEnd ==
  ASSUME NEW s \in Seq(Nat), NEW e \in Nat
  PROVE  /\ Append(s, e) \in Seq(Nat)
         /\ Rising(s) /\ (\A i \in 1..Len(s) : s[i] < e) => Rising(Append(s, e))
         /\ \A n : UpTo(s, n) /\ e <= n => UpTo(Append(s, e), n)
         /\ \A u : Before(u, s) /\ (\A i \in 1..Len(u) : u[i] < e)
                     => Before(u, Append(s, e))
         /\ \A u : Before(s, u) /\ (\A i \in 1..Len(u) : e < u[i])
                     => Before(Append(s, e), u)
<1> DEFINE a == Append(s, e)
<1>1. /\ a \in Seq(Nat) /\ Len(a) = Len(s) + 1 /\ Len(s) \in Nat
      /\ \A i \in 1..Len(s) : a[i] = s[i]
      /\ a[Len(s) + 1] = e
  BY AppendProperties, LenProperties
<1>2. \A i \in 1..Len(a) : i \in 1..Len(s) \/ i = Len(s) + 1
  BY <1>1
<1> HIDE DEF a
<1>3. ASSUME Rising(s), \A i \in 1..Len(s) : s[i] < e PROVE Rising(a)
  <2> SUFFICES ASSUME NEW i \in 1..Len(a), NEW k \in 1..Len(a), i < k
               PROVE  a[i] < a[k]
    BY DEF Rising
  <2>1. i \in 1..Len(s)
    BY <1>1
  <2>2. CASE k \in 1..Len(s)
    BY <1>1, <1>3, <2>1, <2>2 DEF Rising
  <2>3. CASE k = Len(s) + 1
    BY <1>1, <1>3, <2>1, <2>3
  <2>4. QED BY <1>2, <2>2, <2>3
<1>4. ASSUME NEW n, UpTo(s, n), e <= n PROVE UpTo(a, n)
  BY <1>1, <1>2, <1>4 DEF UpTo
<1>5. ASSUME NEW u, Before(u, s), \A i \in 1..Len(u) : u[i] < e PROVE Before(u, a)
  BY <1>1, <1>2, <1>5 DEF Before
<1>6. ASSUME NEW u, Before(s, u), \A i \in 1..Len(u) : e < u[i] PROVE Before(a, u)
  BY <1>1, <1>2, <1>6 DEF Before
<1>7. QED BY <1>1, <1>3, <1>4, <1>5, <1>6 DEF a

\* A read gets the oldest byte of the queue.
LEMMA ByteMoves ==
  ASSUME NEW t \in Seq(Nat), NEW b \in Seq(Nat), NEW q \in Seq(Nat), q # << >>, NEW n,
         InOrder(t, b, q, n)
  PROVE  InOrder(t, Append(b, Head(q)), Tail(q), n)
<1> DEFINE e == Head(q)
<1>1. /\ e \in Nat /\ e = q[1] /\ 1 \in 1..Len(q) /\ Len(Tail(q)) \in Nat
      /\ \A i \in 1..Len(Tail(q)) : Tail(q)[i] = q[i + 1] /\ i + 1 \in 1..Len(q)
  BY FirstAndRest, LenProperties
<1>2. InOrder(t, b, Tail(q), n)
  BY TailInOrder
<1> HIDE DEF e
<1>3. /\ \A i \in 1..Len(t) : t[i] < e
      /\ \A i \in 1..Len(b) : b[i] < e
      /\ e <= n
  BY <1>1 DEF InOrder, Before, UpTo
<1>4. \A i \in 1..Len(Tail(q)) : e < Tail(q)[i]
  <2> SUFFICES ASSUME NEW i \in 1..Len(Tail(q)) PROVE e < Tail(q)[i]
    OBVIOUS
  <2>1. 1 < i + 1 /\ i + 1 \in 1..Len(q)
    BY <1>1
  <2>2. q[1] < q[i + 1]
    BY <1>1, <2>1 DEF InOrder, Rising
  <2>3. QED BY <1>1, <2>2
<1>5. /\ Rising(Append(b, e)) /\ UpTo(Append(b, e), n) /\ Before(t, Append(b, e))
      /\ Before(Append(b, e), Tail(q))
  BY <1>1, <1>2, <1>3, <1>4, LaterAtEnd DEF InOrder
<1>6. QED BY <1>2, <1>5 DEF InOrder, e

\* A byte arrives.
LEMMA ByteArrives ==
  ASSUME NEW t \in Seq(Nat), NEW b \in Seq(Nat), NEW q \in Seq(Nat), NEW n \in Nat,
         InOrder(t, b, q, n)
  PROVE  InOrder(t, b, Append(q, n + 1), n + 1) /\ InOrder(t, b, q, n + 1)
<1>1. ASSUME NEW s \in Seq(Nat), UpTo(s, n)
      PROVE  UpTo(s, n + 1) /\ \A i \in 1..Len(s) : s[i] < n + 1
  <2> SUFFICES ASSUME NEW i \in 1..Len(s) PROVE s[i] <= n + 1 /\ s[i] < n + 1
    BY DEF UpTo
  <2>1. s[i] \in Nat /\ s[i] <= n
    BY <1>1, ElementOfSeq DEF UpTo
  <2>2. QED BY <2>1
<1>2. /\ UpTo(t, n + 1) /\ UpTo(b, n + 1) /\ UpTo(q, n + 1)
      /\ \A i \in 1..Len(t) : t[i] < n + 1
      /\ \A i \in 1..Len(b) : b[i] < n + 1
      /\ \A i \in 1..Len(q) : q[i] < n + 1
  BY <1>1 DEF InOrder
<1>3. n + 1 \in Nat /\ n + 1 <= n + 1
  OBVIOUS
<1>4. /\ Rising(Append(q, n + 1)) /\ UpTo(Append(q, n + 1), n + 1)
      /\ Before(t, Append(q, n + 1)) /\ Before(b, Append(q, n + 1))
  BY <1>2, <1>3, LaterAtEnd DEF InOrder
<1>5. QED BY <1>2, <1>4 DEF InOrder

\* A read returns what it has.
LEMMA BytesReturned ==
  ASSUME NEW t \in Seq(Nat), NEW b \in Seq(Nat), NEW q \in Seq(Nat), NEW n,
         InOrder(t, b, q, n)
  PROVE  InOrder(t \o b, << >>, q, n)
<1> DEFINE a == t \o b
<1>1. /\ Len(t) \in Nat /\ Len(b) \in Nat /\ Len(a) = Len(t) + Len(b)
      /\ \A i \in 1..Len(t) + Len(b) :
            a[i] = IF i <= Len(t) THEN t[i] ELSE b[i - Len(t)]
  BY ConcatProperties, LenProperties
<1> HIDE DEF a
<1>2. \A i \in 1..Len(a) : \/ i \in 1..Len(t) /\ a[i] = t[i]
                           \/ i - Len(t) \in 1..Len(b) /\ a[i] = b[i - Len(t)]
  BY <1>1
<1>3. Before(a, q) /\ UpTo(a, n)
  BY <1>2 DEF InOrder, Before, UpTo
<1>4. Rising(a)
  <2> SUFFICES ASSUME NEW i \in 1..Len(a), NEW k \in 1..Len(a), i < k
               PROVE  a[i] < a[k]
    BY DEF Rising
  <2>1. CASE i \in 1..Len(t) /\ k \in 1..Len(t)
    <3>1. a[i] = t[i] /\ a[k] = t[k]
      BY <1>1, <2>1
    <3>2. QED BY <2>1, <3>1 DEF InOrder, Rising
  <2>2. CASE i \in 1..Len(t) /\ k - Len(t) \in 1..Len(b)
    <3>1. a[i] = t[i] /\ a[k] = b[k - Len(t)]
      BY <1>1, <2>2
    <3>2. QED BY <2>2, <3>1 DEF InOrder, Before
  <2>3. CASE i - Len(t) \in 1..Len(b) /\ k - Len(t) \in 1..Len(b)
    <3>1. a[i] = b[i - Len(t)] /\ a[k] = b[k - Len(t)] /\ i - Len(t) < k - Len(t)
      BY <1>1, <2>3
    <3>2. QED BY <2>3, <3>1 DEF InOrder, Rising
  <2>4. QED BY <1>1, <2>1, <2>2, <2>3
<1>5. QED BY <1>3, <1>4, EmptyBytes DEF InOrder, a

----------------------------------------------------------------------------
\* The whole line, when it is cut in three at other places.
LEMMA SameWhole ==
  ASSUME NEW t \in Seq(Nat), NEW b \in Seq(Nat), NEW q \in Seq(Nat)
  PROVE  /\ (t \o b) \o << >> \o q = t \o b \o q
         /\ \A e \in Nat : t \o b \o Append(q, e) = Append(t \o b \o q, e)
         /\ q # << >> => t \o Append(b, Head(q)) \o Tail(q) = t \o b \o q
<1>1. t \o b \in Seq(Nat)
  BY ConcatProperties
<1>2. (t \o b) \o << >> \o q = t \o b \o q
  BY <1>1, ConcatEmptySeq
<1>3. ASSUME NEW e \in Nat PROVE t \o b \o Append(q, e) = Append(t \o b \o q, e)
  <2>1. << e >> \in Seq(Nat) /\ t \o b \o q \in Seq(Nat)
    BY <1>1, ConcatProperties
  <2>2. Append(q, e) = q \o << e >> /\ Append(t \o b \o q, e) = t \o b \o q \o << e >>
    BY <2>1, AppendIsConcat
  <2>3. t \o b \o (q \o << e >>) = t \o b \o q \o << e >>
    BY <1>1, <2>1, ConcatAssociative
  <2>4. QED BY <2>2, <2>3
<1>4. ASSUME q # << >> PROVE t \o Append(b, Head(q)) \o Tail(q) = t \o b \o q
  <2> DEFINE e == Head(q)
             r == Tail(q)
  <2>1. e \in Nat /\ r \in Seq(Nat) /\ << e >> \in Seq(Nat)
    BY <1>4, FirstAndRest
  <2>2. q = << e >> \o r
    <3>1. /\ Len(q) \in Nat \ {0} /\ Len(r) = Len(q) - 1 /\ e = q[1]
          /\ \A i \in 1..Len(r) : r[i] = q[i + 1]
      BY <1>4, FirstAndRest
    <3> HIDE DEF e, r
    <3>2. /\ << e >> \o r \in Seq(Nat) /\ Len(<< e >> \o r) = 1 + Len(r)
          /\ \A i \in 1..1 + Len(r) :
                (<< e >> \o r)[i] = IF i <= 1 THEN << e >>[i] ELSE r[i - 1]
      <4>1. Len(<< e >>) = 1
        OBVIOUS
      <4>2. QED BY <2>1, <4>1, ConcatProperties
    <3>3. ASSUME NEW i \in 1..Len(q) PROVE q[i] = (<< e >> \o r)[i]
      <4>1. CASE i = 1
        BY <3>1, <3>2, <4>1
      <4>2. CASE i # 1
        <5>1. i - 1 \in 1..Len(r) /\ (i - 1) + 1 = i
          BY <3>1, <4>2
        <5>2. r[i - 1] = q[i]
          BY <3>1, <5>1
        <5>3. QED BY <3>1, <3>2, <4>2, <5>2
      <4>3. QED BY <4>1, <4>2
    <3>4. Len(q) = Len(<< e >> \o r)
      BY <3>1, <3>2
    <3>5. QED BY <3>2, <3>3, <3>4, SeqEqual
  <2> HIDE DEF e, r
  <2>3. Append(b, e) = b \o << e >>
    BY <2>1, AppendIsConcat
  <2>4. t \o (b \o << e >>) = (t \o b) \o << e >>
    BY <2>1, ConcatAssociative
  <2>5. ((t \o b) \o << e >>) \o r = (t \o b) \o (<< e >> \o r)
    BY <1>1, <2>1, ConcatAssociative, SMTT(30)
  <2>6. QED BY <2>2, <2>3, <2>4, <2>5 DEF e, r
<1>5. QED BY <1>2, <1>3, <1>4

\* All bytes up to n, and the next one.
LEMMA NextByte ==
  ASSUME NEW n \in Nat
  PROVE  Append([i \in 1..n |-> i], n + 1) = [i \in 1..n + 1 |-> i]
<1> DEFINE s == [i \in 1..n |-> i]
           u == [i \in 1..n + 1 |-> i]
<1>1. s \in [1..n -> Nat] /\ u \in [1..n + 1 -> Nat] /\ n + 1 \in Nat
  OBVIOUS
<1>2. s \in Seq(Nat) /\ u \in Seq(Nat)
  BY <1>1, SeqDef
<1>3. Len(s) = n /\ Len(u) = n + 1
  BY <1>1, <1>2, LenProperties
<1>4. /\ Append(s, n + 1) \in Seq(Nat) /\ Len(Append(s, n + 1)) = n + 1
      /\ \A i \in 1..n : Append(s, n + 1)[i] = s[i]
      /\ Append(s, n + 1)[n + 1] = n + 1
  BY <1>1, <1>2, <1>3, AppendProperties
<1>5. \A i \in 1..n + 1 : Append(s, n + 1)[i] = u[i]
  BY <1>4
<1>6. QED BY <1>2, <1>3, <1>4, <1>5, SeqEqual

----------------------------------------------------------------------------
(* The steps of the driver and of the methods. *)

LEMMA LineInit == Init => LineInv
<1> SUFFICES ASSUME Init PROVE LineInv
  OBVIOUS
<1>1. arrived = 0 /\ taken = << >> /\ queue = << >> /\ swallow = 0 /\ ~Reading
  BY DEF Init, NoCall, Reading
<1>2. Buffer = << >>
  BY <1>1 DEF Buffer
<1>3. BytesOK /\ InOrder(taken, Buffer, queue, arrived) /\ SwallowExcused
  BY <1>1, <1>2, EmptyBytes DEF BytesOK, InOrder, SwallowExcused
<1>4. Whole
  <2>1. << >> \o << >> \o << >> = << >>
    BY EmptyBytes, ConcatEmptySeq
  <2>2. [i \in 1..0 |-> i] = << >>
    OBVIOUS
  <2>3. QED BY <1>1, <1>2, <2>1, <2>2 DEF Whole
<1>5. QED BY <1>3, <1>4 DEF LineInv

LEMMA NotReading == ~Reading => Buffer = << >>
BY DEF Buffer

\* Steps in which nothing arrives or is returned: bytes stay, or their loss is
\* excused.
LEMMA BytesStay ==
  ASSUME LineInv, UNCHANGED <<arrived, taken>>,
         queue' \in {queue, << >>}, Buffer' \in {Buffer, << >>},
         Reading' => call' = [op |-> "read", finite |-> call'.finite, n |-> call'.n,
                              buf |-> call'.buf],
         excused => excused', swallow' > 0 => excused',
         queue' # queue \/ Buffer' # Buffer => excused'
  PROVE  LineInv'
<1>1. BytesOK'
  BY EmptyBytes DEF LineInv, BytesOK
<1>2. InOrder(taken, Buffer', queue', arrived)
  BY FewerInOrder DEF LineInv
<1>3. excused' \/ Whole'
  BY DEF LineInv, Whole
<1>4. QED BY <1>1, <1>2, <1>3 DEF LineInv, SwallowExcused

\* A step that leaves the line, the queue and the read alone.
LEMMA LineUnchanged ==
  ASSUME LineInv, UNCHANGED <<arrived, taken, excused, queue, swallow, call>>
  PROVE  LineInv'
BY BytesStay DEF LineInv, BytesOK, SwallowExcused, Buffer, Reading

\* A closed port starts from nothing.
LEMMA CloseEmpties == ASSUME LineInv, CloseBoth, Idle, UNCHANGED call PROVE LineInv'
<1>1. /\ arrived' = 0 /\ taken' = << >> /\ queue' = << >> /\ swallow' = 0
      /\ ~Reading'
  BY DEF CloseBoth, Idle, NoCall, Reading
<1>2. Buffer' = << >>
  BY <1>1 DEF Buffer
<1>3. BytesOK' /\ InOrder(taken', Buffer', queue', arrived') /\ SwallowExcused'
  BY <1>1, <1>2, EmptyBytes DEF BytesOK, InOrder, SwallowExcused
<1>4. Whole'
  <2>1. << >> \o << >> \o << >> = << >>
    BY EmptyBytes, ConcatEmptySeq
  <2>2. [i \in 1..0 |-> i] = << >>
    OBVIOUS
  <2>3. QED BY <1>1, <1>2, <2>1, <2>2 DEF Whole
<1>5. QED BY <1>3, <1>4 DEF LineInv

LEMMA PurgeLine == ASSUME LineInv, Purge PROVE LineInv'
<1>1. CASE Fails(Failed)
  BY <1>1, LineUnchanged DEF Fails, input, ghosts
<1>2. CASE ~Fails(Failed)
  <2>1. /\ queue' = << >> /\ excused' = (excused \/ queue # << >>)
        /\ UNCHANGED <<swallow, call, arrived, taken>>
    BY <1>2 DEF Purge
  <2>2. Buffer' = Buffer
    BY <2>1 DEF Buffer, Reading
  <2>3. QED
    BY <2>1, <2>2, BytesStay DEF LineInv, BytesOK, SwallowExcused, Reading
<1>3. QED BY <1>1, <1>2

\* A read begins with nothing.
LEMMA BeginLine ==
  ASSUME LineInv, NEW c, Begin(c),
         c.op = "read" => c = [op |-> "read", finite |-> c.finite, n |-> c.n,
                               buf |-> << >>]
  PROVE  LineInv'
<1>1. ASSUME NEW error, Fails(error) PROVE LineInv'
  BY <1>1, LineUnchanged DEF Fails, input, ghosts
<1>2. CASE ~ \E error : Fails(error)
  <2>1. Idle /\ call' = c /\ UNCHANGED <<queue, swallow, arrived, taken, excused>>
    BY <1>2 DEF Begin, input, ghosts
  <2>2. Buffer' = << >>
    <3>1. c.op = "read" => c.buf = << >>
      OBVIOUS
    <3>2. QED BY <2>1, <3>1 DEF Buffer, Reading
  <2>3. Buffer = << >>
    BY <2>1, NotReading DEF Idle, NoCall, Reading
  <2>4. Reading' => call' = [op |-> "read", finite |-> call'.finite, n |-> call'.n,
                             buf |-> call'.buf]
    <3>1. c.op = "read" => c.buf = << >>
      OBVIOUS
    <3>2. QED BY <2>1, <3>1 DEF Reading
  <2>5. QED BY <2>1, <2>2, <2>3, <2>4, BytesStay DEF LineInv, SwallowExcused
<1>3. QED BY <1>1, <1>2

\* A call that returns an error gives up what its read had taken.
LEMMA GivenUp ==
  ASSUME LineInv, call' = NoCall, UNCHANGED <<arrived, taken, queue>>,
         excused \/ Buffer # << >> => excused', swallow' > 0 => excused'
  PROVE  LineInv'
<1>1. ~Reading'
  BY DEF NoCall, Reading
<1>2. Buffer' = << >>
  BY <1>1 DEF Buffer
<1>3. QED BY <1>1, <1>2, BytesStay

LEMMA ReturnsLine == ASSUME LineInv, TimeOut \/ NoResult PROVE LineInv'
BY GivenUp DEF TimeOut, NoResult, Returns, LineInv, SwallowExcused

LEMMA AbandonLine == ASSUME LineInv, NEW error, Abandon(error) PROVE LineInv'
<1>1. Buffer # << >> => Reading
  BY NotReading
<1>2. excused \/ Buffer # << >> => excused'
  BY <1>1 DEF Abandon
<1>3. swallow' > 0 => excused'
  <2>1. ~(0 > 0)
    OBVIOUS
  <2>2. QED BY <2>1 DEF Abandon
<1>4. QED BY <1>2, <1>3, GivenUp DEF Abandon

LEMMA OtherCompletes == ASSUME LineInv, CompleteWrite \/ CompleteWait PROVE LineInv'
<1>1. ~Reading
  BY DEF CompleteWrite, CompleteWait, Reading
<1>2. Buffer = << >>
  BY <1>1, NotReading
<1>3. /\ call' = NoCall
      /\ UNCHANGED <<arrived, taken, queue, excused, swallow>>
  BY DEF CompleteWrite, CompleteWait, input, ghosts
<1>4. QED BY <1>2, <1>3, GivenUp DEF LineInv, SwallowExcused

LEMMA ReadReturns == ASSUME LineInv, CompleteRead PROVE LineInv'
<1>1. /\ Reading /\ call' = NoCall /\ taken' = taken \o Buffer
      /\ UNCHANGED <<arrived, queue, excused, swallow>>
  BY DEF CompleteRead, input, Buffer
<1>2. ~Reading' /\ Buffer' = << >>
  BY <1>1 DEF NoCall, Reading, Buffer
<1>3. taken \in Seq(Nat) /\ queue \in Seq(Nat) /\ Buffer \in Seq(Nat)
  BY DEF LineInv, BytesOK
<1>4. BytesOK'
  BY <1>1, <1>2, <1>3, EmptyBytes, ConcatProperties DEF LineInv, BytesOK
<1>5. InOrder(taken', Buffer', queue', arrived')
  BY <1>1, <1>2, <1>3, BytesReturned DEF LineInv
<1>6. excused' \/ Whole'
  BY <1>1, <1>2, <1>3, SameWhole DEF LineInv, Whole
<1>7. QED BY <1>1, <1>4, <1>5, <1>6 DEF LineInv, SwallowExcused

LEMMA FillLine == ASSUME LineInv, Fill PROVE LineInv'
<1>1. taken \in Seq(Nat) /\ queue \in Seq(Nat) /\ Buffer \in Seq(Nat)
  BY DEF LineInv, BytesOK
<1>2. queue # << >> /\ queue' = Tail(queue) /\ UNCHANGED <<arrived, taken, excused>>
  BY DEF Fill, ghosts
<1>3. queue' \in Seq(Nat) /\ Head(queue) \in Nat
  BY <1>1, <1>2, FirstAndRest
<1>4. CASE swallow > 0 /\ UNCHANGED call
  <2>1. excused'
    BY <1>2, <1>4 DEF LineInv, SwallowExcused
  <2>2. Buffer' = Buffer
    BY <1>4 DEF Buffer, Reading
  <2>3. InOrder(taken', Buffer', queue', arrived')
    BY <1>1, <1>2, <2>2, TailInOrder DEF LineInv
  <2>4. BytesOK'
    BY <1>2, <1>3, <1>4, <2>2 DEF LineInv, BytesOK, Reading
  <2>5. QED BY <2>1, <2>3, <2>4 DEF LineInv, SwallowExcused
<1>5. CASE /\ Reading /\ call' = [call EXCEPT !.buf = Append(@, Head(queue))]
           /\ UNCHANGED swallow
  <2>1. PICK f, n, b : call = [op |-> "read", finite |-> f, n |-> n, buf |-> b]
    BY <1>5 DEF LineInv, BytesOK
  <2>2. call' = [op |-> "read", finite |-> f, n |-> n, buf |-> Append(b, Head(queue))]
    BY <1>5, <2>1
  <2>3. /\ call.buf = b /\ call'.op = "read" /\ call'.finite = f /\ call'.n = n
        /\ call'.buf = Append(b, Head(queue))
    BY <2>1, <2>2
  <2>4. Buffer = b /\ Buffer' = Append(Buffer, Head(queue))
    BY <1>5, <2>3 DEF Buffer, Reading
  <2>5. BytesOK'
    <3>1. Buffer' \in Seq(Nat)
      BY <1>1, <1>3, <2>4, AppendProperties
    <3>2. QED BY <1>2, <1>3, <2>2, <2>3, <3>1 DEF LineInv, BytesOK
  <2>6. InOrder(taken', Buffer', queue', arrived')
    BY <1>1, <1>2, <2>4, ByteMoves DEF LineInv
  <2>7. excused' \/ Whole'
    BY <1>1, <1>2, <2>4, SameWhole DEF LineInv, Whole
  <2>8. QED BY <1>2, <1>5, <2>5, <2>6, <2>7 DEF LineInv, SwallowExcused
<1>6. QED BY <1>4, <1>5 DEF Fill

LEMMA ArriveLine == ASSUME LineInv, Arrive PROVE LineInv'
<1>1. /\ taken \in Seq(Nat) /\ queue \in Seq(Nat) /\ Buffer \in Seq(Nat)
      /\ arrived \in Nat /\ InOrder(taken, Buffer, queue, arrived)
  BY DEF LineInv, BytesOK
<1>2. arrived' = arrived + 1 /\ UNCHANGED <<taken, call, swallow>>
  BY DEF Arrive
<1>3. Buffer' = Buffer
  BY <1>2 DEF Buffer, Reading
<1>4. CASE queue' = Append(queue, arrived + 1) /\ UNCHANGED excused
  <2>1. arrived + 1 \in Nat
    BY <1>1
  <2>2. BytesOK'
    BY <1>1, <1>2, <1>3, <1>4, <2>1, AppendProperties DEF LineInv, BytesOK, Reading
  <2>3. InOrder(taken', Buffer', queue', arrived')
    BY <1>1, <1>2, <1>3, <1>4, ByteArrives
  <2>4. Whole => Whole'
    <3>1. taken \o Buffer \o Append(queue, arrived + 1)
            = Append(taken \o Buffer \o queue, arrived + 1)
      BY <1>1, <2>1, SameWhole
    <3>2. QED BY <1>1, <1>2, <1>3, <1>4, <3>1, NextByte DEF Whole
  <2>5. QED BY <1>2, <1>4, <2>2, <2>3, <2>4 DEF LineInv, SwallowExcused
<1>5. CASE excused' = TRUE /\ UNCHANGED queue
  <2>1. BytesOK'
    BY <1>1, <1>2, <1>3, <1>5 DEF LineInv, BytesOK, Reading
  <2>2. InOrder(taken', Buffer', queue', arrived')
    BY <1>1, <1>2, <1>3, <1>5, ByteArrives
  <2>3. QED BY <1>5, <2>1, <2>2 DEF LineInv, SwallowExcused
<1>6. QED BY <1>4, <1>5 DEF Arrive

LEMMA LineNext == LineInv /\ [Next]_vars => LineInv'
<1> SUFFICES ASSUME LineInv, [Next]_vars PROVE LineInv'
  OBVIOUS
<1> USE DEF input, ghosts
<1>1. ASSUME NEW error, Fails(error) PROVE LineInv'
  BY <1>1, LineUnchanged DEF Fails
<1>2. CASE NotOpen \/ OpenAgain \/ OpenFails \/ Get \/ GetModemStatus \/ GetEventType
  BY <1>1, <1>2, LineUnchanged
     DEF NotOpen, OpenAgain, OpenFails, Get, GetModemStatus, GetEventType
<1>3. CASE Close \/ Destroy
  <2>1. CASE m_hFile
    BY <1>3, <2>1, CloseEmpties DEF Close, Destroy
  <2>2. CASE ~m_hFile
    BY <1>3, <2>2, LineUnchanged DEF Close, Destroy
  <2>3. QED BY <2>1, <2>2
<1>4. ASSUME NEW fOverlapped, NEW masked, NEW timed, NEW defaults,
             Open(fOverlapped, masked, timed, defaults)
      PROVE  LineInv'
  BY <1>4, LineUnchanged DEF Open
<1>5. CASE Setup \/ SetupHandshaking
  <2>1. ASSUME NEW d, NEW part, NEW value, SetState(d, part, value) PROVE LineInv'
    BY <2>1, LineUnchanged DEF SetState
  <2>2. QED BY <1>1, <1>5, <2>1 DEF Setup, SetupHandshaking
<1>6. CASE SetMask
  <2>1. (\E error : Fails(error))
          \/ UNCHANGED <<arrived, taken, excused, queue, swallow, call>>
    BY <1>6 DEF SetMask
  <2>2. QED BY <1>1, <2>1, LineUnchanged
<1>7. CASE SetEventChar
  <2>1. (\E error : Fails(error))
          \/ UNCHANGED <<arrived, taken, excused, queue, swallow, call>>
    BY <1>7 DEF SetEventChar
  <2>2. QED BY <1>1, <2>1, LineUnchanged
<1>8. CASE SetupReadTimeouts
  <2>1. (\E error : Fails(error))
          \/ UNCHANGED <<arrived, taken, excused, queue, swallow, call>>
    BY <1>8 DEF SetupReadTimeouts
  <2>2. QED BY <1>1, <2>1, LineUnchanged
<1>9. CASE Purge
  BY <1>9, PurgeLine
<1>10. CASE Read \/ Write \/ WaitEvent
  <2>1. CASE Read
    <3>1. PICK n \in ReadSizes, finite \in BOOLEAN :
            Begin([op |-> "read", finite |-> finite, n |-> n, buf |-> << >>])
      BY <2>1 DEF Read
    <3>2. QED BY <3>1, BeginLine
  <2>2. CASE Write
    <3>1. PICK finite \in BOOLEAN : Begin([op |-> "write", finite |-> finite])
      BY <2>2 DEF Write
    <3>2. QED BY <3>1, BeginLine
  <2>3. CASE WaitEvent
    <3>1. PICK finite \in BOOLEAN : Begin([op |-> "wait", finite |-> finite])
      BY <2>3 DEF WaitEvent
    <3>2. QED BY <3>1, BeginLine
  <2>4. QED BY <1>10, <2>1, <2>2, <2>3
<1>11. CASE TimeOut \/ NoResult
  BY <1>11, ReturnsLine
<1>12. CASE WaitFails \/ CancelFails
  BY <1>12, AbandonLine DEF WaitFails, CancelFails
<1>13. CASE CompleteRead \/ CompleteWrite \/ CompleteWait
  BY <1>13, ReadReturns, OtherCompletes
<1>14. CASE Fill \/ Arrive
  BY <1>14, FillLine, ArriveLine
<1>15. CASE OtherOpens \/ OtherCloses
  BY <1>15, LineUnchanged DEF OtherOpens, OtherCloses
<1>16. CASE UNCHANGED vars
  BY <1>16, LineUnchanged DEF vars
<1>17. QED
  BY <1>2, <1>3, <1>4, <1>5, <1>6, <1>7, <1>8, <1>9, <1>10, <1>11, <1>12, <1>13,
     <1>14, <1>15, <1>16 DEF Next, Client, Driver

\* The bytes of the line are returned in their order, each once, and none is
\* missing but for a read given up, a purge, a full queue or a failed wait, for
\* queues and reads of any size (Read and Purge of Serial.cpp).
THEOREM NoByteIsLost == Spec => []NothingLost
<1>1. LineInv => NothingLost
  <2> SUFFICES ASSUME LineInv PROVE NothingLost
    OBVIOUS
  <2>1. taken \in Seq(Nat) /\ Rising(taken)
    BY DEF LineInv, BytesOK, InOrder
  <2>2. DOMAIN taken = 1..Len(taken)
    BY <2>1, LenProperties
  <2>3. QED BY <2>1, <2>2 DEF LineInv, Whole, NothingLost, Rising
<1>2. Spec => []LineInv
  BY LineInit, LineNext, PTL DEF Spec
<1>3. QED BY <1>1, <1>2, PTL

=============================================================================

------------------------------ MODULE RadioValues ------------------------------
(***************************************************************************)
(* An application that builds requests, databases and errors with the      *)
(* constructors of src/ble.rs, src/sle.rs, src/wifi.rs and                 *)
(* src/diagnostics.rs, one call at a time.  It holds the values it has     *)
(* built and composes them into larger ones; a constructor that returns    *)
(* None leaves it with nothing, and it begins again.                       *)
(*                                                                         *)
(* The constructors are total functions: what can be wrong is that a chain *)
(* of calls, each of which checks its own arguments, builds a whole that   *)
(* no caller should have got, or refuses one it should have built.  The    *)
(* properties walk the whole.                                              *)
(***************************************************************************)
EXTENDS BleValues, SleValues, WifiValues, ErrorDiagnostics

CONSTANTS
  \* inputs of the constructors
  LowByte, TopByte,                  \* of an address
  Units,                             \* for each kind of interval, a set
  Lengths,                           \* of payloads
  Bitmaps,                           \* of channels
  Numbers,                           \* passkeys, signal strengths, timeouts
  DescriptorUuids, Permissions,      \* of a database: for each protocol, a set
  Operations,                        \* of a characteristic or a property
  SsidBytes, PassphraseBytes,
  Codes, TraceEntries, Revisions,    \* of a backend error
  MaxParts, MaxPushed                \* bounds

\* The types of the arguments: bytes, u16, u32 and the kinds of an entry.
ASSUME ValuesAssumption ==
  /\ LowByte \cup TopByte \cup Bitmaps \subseteq 0 .. 255
  /\ \A kind \in {"Advertising", "Scan", "Announce", "Seek"} : Units[kind] \subseteq Nat
  /\ \A units \in Units["Seek"] : units < 2^16
  /\ Lengths \cup Numbers \subseteq Nat
  /\ SsidBytes \cup PassphraseBytes \subseteq Seq(0 .. 255)
  /\ \A entry \in TraceEntries : entry.kind \in DiagnosticTraceKind
  /\ Revisions \subseteq Seq(Nat)  \* code points

VARIABLES
  parts,    \* the values the application holds, oldest first
  refused,  \* what the last constructor returned None for, as an Option
  history   \* what the backend said of the error under construction

valueVars == <<parts, refused, history>>

NoHistory == [pushed |-> <<>>, stage |-> None, revision |-> None]

ValuesInit == parts = <<>> /\ refused = None /\ history = NoHistory

Types == [i \in 1 .. Len(parts) |-> parts[i].type]

\* A constructor of `value', which succeeds if `ok', that keeps `kept'.
Construct(kept, value, ok) ==
  /\ refused = None
  /\ parts' = IF ok THEN Append(kept, value) ELSE <<>>
  /\ refused' = IF ok THEN None ELSE Some(value)
  /\ history' = NoHistory

New(value, ok) == Construct(parts, value, ok)

\* The application drops what it holds, or begins again after a refusal.
Discard ==
  /\ parts # <<>> \/ refused # None
  /\ parts' = <<>> /\ refused' = None /\ history' = NoHistory

-----------------------------------------------------------------------------
(* Addresses and numbers *)

BluetoothAddress(bytes, kind, constructor) ==
  [type |-> "BluetoothAddress", bytes |-> bytes, kind |-> kind, by |-> constructor]

NewBluetoothAddress(bytes) ==
  /\ parts = <<>>
  /\ \/ New(BluetoothAddress(bytes, PublicKind(bytes), "public"), PublicKind(bytes) # "None")
     \/ New(BluetoothAddress(bytes, RandomStaticKind(bytes), "random_static"),
            RandomStaticKind(bytes) # "None")
     \/ New(BluetoothAddress(bytes, RandomKind(bytes), "random"), RandomKind(bytes) # "None")

NewSleAddress(bytes) ==
  /\ parts = <<>>
  /\ New([type |-> "SleAddress", bytes |-> bytes], SleAddressOk(bytes))

NewNumber(value) ==
  /\ parts = <<>>
  /\ \/ New([type |-> "Passkey", value |-> value], PasskeyOk(value))
     \/ value <= 127 /\ New([type |-> "RssiDbm", value |-> value], RssiOk(value))
     \/ New([type |-> "Timeout", value |-> value], TimeoutOk(value))
     \/ \E time \in Numbers :
          New([type |-> "WorkBudget", events |-> value, time |-> time], WorkBudgetOk(value, time))

-----------------------------------------------------------------------------
(* GAP, announce and seek requests *)

IntervalOk(kind, units) ==
  /\ kind = "Advertising" => AdvertisingIntervalOk(units)
  /\ kind = "Scan"        => ScanIntervalOk(units)
  /\ kind = "Announce"    => AnnounceIntervalOk(units)
  /\ kind = "Seek"        => SeekIntervalOk(units)

NewInterval(kind, units) ==
  /\ Len(parts) < 2
  /\ \A i \in 1 .. Len(parts) : parts[i].type = "Interval" /\ parts[i].kind = kind
  /\ New([type |-> "Interval", kind |-> kind, units |-> units], IntervalOk(kind, units))

\* The try_new of each timing: a minimum and a maximum, or an interval and
\* its window.
TimingOk(kind, first, second) ==
  /\ kind = "Advertising" => AdvertisingTimingOk(first, second)
  /\ kind = "Announce"    => AnnounceTimingOk(first, second)
  /\ kind = "Scan"        => ScanTimingOk(first, second)
  /\ kind = "Seek"        => SeekTimingOk(first, second)

NewTiming ==
  /\ Types = <<"Interval", "Interval">>
  /\ Construct(<<>>, [type |-> "Timing", kind |-> parts[1].kind,
                      first |-> parts[1].units, second |-> parts[2].units],
               TimingOk(parts[1].kind, parts[1].units, parts[2].units))

NewChannels(bits) ==
  /\ Types = <<"Timing">> /\ parts[1].kind \in {"Advertising", "Announce"}
  /\ New([type |-> "Channels", bits |-> bits],
         IF parts[1].kind = "Advertising" THEN AdvertisingChannelsOk(bits)
                                          ELSE AnnounceChannelsOk(bits))

NewPayload(len) ==
  /\ Types = <<"Timing", "Channels">>
  /\ New([type |-> "Payload", kind |-> parts[1].kind, len |-> len],
         IF parts[1].kind = "Advertising" THEN AdvertisingPayloadOk(len)
                                          ELSE AnnouncePayloadOk(len))

\* AdvertisingConfig, ScanConfig, AnnounceConfig and SeekConfig take parts
\* that were validated before; announce data is its own seek response here.
NewRequest ==
  /\ \/ Types = <<"Timing">> /\ parts[1].kind \in {"Scan", "Seek"}
     \/ Types = <<"Timing", "Channels", "Payload">>
  /\ Construct(<<>>, [type |-> "Request", kind |-> parts[1].kind, parts |-> parts], TRUE)

-----------------------------------------------------------------------------
(* GATT and SSAP databases *)

Attribute(protocol, permissions, operations, descriptors, initialLen, maximumLen) ==
  [type |-> "Attribute", protocol |-> protocol, permissions |-> permissions,
   operations |-> operations, descriptors |-> descriptors,
   initialLen |-> initialLen, maximumLen |-> maximumLen]

\* The descriptors made after the last of `made' attributes.
Descriptors(made) == SubSeq(parts, made + 1, Len(parts))

\* The constructor keeps the permissions of a descriptor and looks at none.
NewDescriptor(protocol, uuid, permissions, initialLen, maximumLen) ==
  /\ Len(parts) < MaxParts
  /\ \A i \in 1 .. Len(parts) :
       parts[i].type \in {"Descriptor", "Attribute"} /\ parts[i].protocol = protocol
  /\ New([type |-> "Descriptor", protocol |-> protocol, uuid |-> uuid, permissions |-> permissions,
          initialLen |-> initialLen, maximumLen |-> maximumLen],
         IF protocol = "GATT" THEN GattDescriptorOk(initialLen, maximumLen)
                              ELSE SsapDescriptorOk(initialLen, maximumLen))

\* A characteristic or a property, with the descriptors that are at hand.
NewAttribute(protocol, permissions, operations, initialLen, maximumLen) ==
  \E made \in 0 .. Len(parts) :
    /\ made < MaxParts
    /\ \A i \in 1 .. Len(parts) :
         /\ parts[i].type = (IF i <= made THEN "Attribute" ELSE "Descriptor")
         /\ parts[i].protocol = protocol
    /\ Construct(SubSeq(parts, 1, made),
         Attribute(protocol, permissions, operations, Descriptors(made), initialLen, maximumLen),
         IF protocol = "GATT"
         THEN GattCharacteristicOk(operations, initialLen, maximumLen, Descriptors(made))
         ELSE SsapPropertyOk(permissions, operations, initialLen, maximumLen))

\* A service takes the attributes that are at hand, which may be none.
NewService(protocol) ==
  /\ \A i \in 1 .. Len(parts) : parts[i].type = "Attribute" /\ parts[i].protocol = protocol
  /\ Construct(<<>>, [type |-> "Service", protocol |-> protocol, attributes |-> parts],
               IF protocol = "GATT" THEN GattServiceOk(parts) ELSE SsapServiceOk(parts))

NewServer(protocol) ==
  /\ \A i \in 1 .. Len(parts) : parts[i].type = "Service" /\ parts[i].protocol = protocol
  /\ Construct(<<>>, [type |-> "Server", protocol |-> protocol, services |-> parts],
               IF protocol = "GATT" THEN GattServerOk(parts) ELSE SsapServerOk(parts))

-----------------------------------------------------------------------------
(* Station requests *)

NewSsid(bytes) ==
  /\ parts = <<>>
  /\ New([type |-> "Ssid", bytes |-> bytes], SsidOk(bytes))

\* A backend's scan result: its fields are public.
NewScanResult(security) ==
  /\ Types = <<"Ssid">>
  /\ \E bssid \in {"bssid1", "bssid2"}, channel \in {1, 6} :
       Construct(<<>>, [type |-> "ScanResult", ssid |-> parts[1].bytes, bssid |-> bssid,
                        channel |-> channel, security |-> security], TRUE)

NewPassphrase(bytes) ==
  /\ Types = <<"ScanResult">>
  /\ New([type |-> "Passphrase", bytes |-> bytes], PassphraseOk(bytes))

\* wpa2_personal and wpa3_personal take the passphrase with them: when the
\* security of the scan result does not fit it is dropped, and erased.
\* `scan' and `chosen' are history.
NewStation(security) ==
  /\ Types = <<"ScanResult", "Passphrase">>
  /\ LET ok == IF security = Wpa2 THEN Wpa2Selectable(parts[1].security)
               ELSE Wpa3Selectable(parts[1].security)
         secret == IF ok THEN parts[2].bytes ELSE Erased(parts[2].bytes)
     IN Construct(<<>>, [type |-> "Station", scan |-> parts[1], chosen |-> security,
                         config |-> StationConfig(parts[1], secret, security)], ok)

-----------------------------------------------------------------------------
(* Errors *)

NewError(class, code) ==
  /\ parts = <<>>
  /\ New([type |-> "BackendError", error |-> NewBackendError(class, code)], TRUE)

Change(error) ==
  /\ parts' = <<[type |-> "BackendError", error |-> error]>>
  /\ refused' = None

TellStage(stage) ==
  /\ Types = <<"BackendError">> /\ history.stage = None
  /\ Change(WithStage(parts[1].error, stage))
  /\ history' = [history EXCEPT !.stage = Some(stage)]

TellRevision(revision) ==
  /\ Types = <<"BackendError">> /\ history.revision = None
  /\ Change(WithProfileRevision(parts[1].error, revision))
  /\ history' = [history EXCEPT !.revision = Some(revision)]

\* Bound: MaxPushed, more than the trace has room for.
TellTrace(entry) ==
  /\ Types = <<"BackendError">> /\ Len(history.pushed) < MaxPushed
  /\ Change(WithTrace(parts[1].error, entry))
  /\ history' = [history EXCEPT !.pushed = Append(history.pushed, entry)]

ReportBackendError ==
  /\ Types = <<"BackendError">>
  /\ parts' = <<[type |-> "Diagnostic", json |-> Json(BackendDiagnostic(parts[1].error)),
                 error |-> parts[1].error]>>
  /\ UNCHANGED <<refused, history>>

ReportError(error) ==
  /\ parts = <<>>
  /\ New([type |-> "FacadeDiagnostic", json |-> Json(FacadeDiagnostic(error)), error |-> error],
         TRUE)

-----------------------------------------------------------------------------

IntervalKind == {"Advertising", "Scan", "Announce", "Seek"}
Protocol == {"GATT", "SSAP"}
Permission == {"READ", "WRITE"}

\* A value that fits, one that is too long, and no room at all.
ValueLengths == {<<0, 2>>, <<3, 2>>, <<0, 0>>}

\* Calls that need nothing the application holds.
Begin ==
  \/ \E low \in [1 .. 5 -> LowByte], top \in TopByte :
       NewBluetoothAddress(Append(low, top)) \/ NewSleAddress(Append(low, top))
  \/ \E value \in Numbers : NewNumber(value)
  \/ \E bytes \in SsidBytes : NewSsid(bytes)
  \/ \E class \in BackendErrorClass, code \in Codes : NewError(class, code)
  \/ \E error \in {"AlreadyInitialized", "Protocol"} : ReportError(error)

BuildRequest ==
  \/ \E kind \in IntervalKind : \E units \in Units[kind] : NewInterval(kind, units)
  \/ NewTiming
  \/ \E bits \in Bitmaps : NewChannels(bits)
  \/ \E len \in Lengths : NewPayload(len)
  \/ NewRequest

BuildDatabase ==
  \/ \E protocol \in Protocol, lengths \in ValueLengths : \E permissions \in Permissions[protocol] :
       \/ \E uuid \in DescriptorUuids[protocol] :
            NewDescriptor(protocol, uuid, permissions, lengths[1], lengths[2])
       \/ \E operations \in Operations :
            NewAttribute(protocol, permissions, operations, lengths[1], lengths[2])
  \/ \E protocol \in Protocol : NewService(protocol) \/ NewServer(protocol)

BuildStation ==
  \/ \E security \in Security : NewScanResult(security)
  \/ \E bytes \in PassphraseBytes : NewPassphrase(bytes)
  \/ \E security \in PersonalSecurity : NewStation(security)

DescribeError ==
  \/ \E stage \in {"Sae"} : TellStage(stage)
  \/ \E revision \in Revisions : TellRevision(revision)
  \/ \E entry \in TraceEntries : TellTrace(entry)
  \/ ReportBackendError

Holds(types) == refused = None /\ ToSet(Types) \subseteq types

ValuesNext ==
  \/ Discard
  \/ parts = <<>> /\ refused = None /\ Begin
  \/ Holds({"Interval", "Timing", "Channels", "Payload"}) /\ BuildRequest
  \/ Holds({"Descriptor", "Attribute", "Service"}) /\ BuildDatabase
  \/ Holds({"Ssid", "ScanResult", "Passphrase"}) /\ BuildStation
  \/ Holds({"BackendError"}) /\ DescribeError

ValuesSpec == ValuesInit /\ [][ValuesNext]_valueVars

-----------------------------------------------------------------------------
(* What the values are meant to be, said without the constructors *)

\* An address as the set of its one bits, of 48.
Bits(bytes) == {i \in 0 .. 47 : (bytes[(i \div 8) + 1] \div 2^(i % 8)) % 2 = 1}

Mixed(bits, field) == bits \cap field \notin {{}, field}

KindOfBits(constructor, bits) ==
  LET static == {46, 47} \subseteq bits /\ Mixed(bits, 0 .. 45)
  IN CASE constructor = "public" -> IF bits = {} THEN "None" ELSE "Public"
       [] constructor = "random_static" -> IF static THEN "RandomStatic" ELSE "None"
       [] constructor = "random" /\ {46, 47} \subseteq bits ->
            IF static THEN "RandomStatic" ELSE "None"
       [] constructor = "random" /\ bits \cap {46, 47} = {46} ->
            IF Mixed(bits, 24 .. 45) THEN "ResolvablePrivate" ELSE "None"
       [] constructor = "random" /\ bits \cap {46, 47} = {47} -> "None"
       [] constructor = "random" /\ bits \cap {46, 47} = {} ->
            IF bits = {} THEN "None" ELSE "NonResolvablePrivate"

\* The limits in time: 20 ms to 10.24 s, 2.5 ms to 10.24 s, and from 4 ms
\* and 2.5 ms to what three and two bytes hold.
IntervalFits(kind, units) ==
  /\ kind = "Advertising" => units * 625 >= 20000 /\ units * 625 <= 10240000
  /\ kind = "Scan"        => units * 625 >= 2500 /\ units * 625 <= 10240000
  /\ kind = "Announce"    => units * 125 >= 4000 /\ units < 2^24
  /\ kind = "Seek"        => units * 125 >= 2500 /\ units < 2^16

TimingFits(timing) ==
  /\ IntervalFits(timing.kind, timing.first) /\ IntervalFits(timing.kind, timing.second)
  /\ IF timing.kind \in {"Advertising", "Announce"}
     THEN timing.second >= timing.first
     ELSE timing.second \in 1 .. timing.first

ChannelBitmap(channels) ==
  LET bit(c) == IF c \in channels THEN 2^c ELSE 0 IN bit(0) + bit(1) + bit(2)

ChannelsFit(bits) == \E channels \in (SUBSET {0, 1, 2}) \ {{}} : bits = ChannelBitmap(channels)
PayloadFits(kind, len) == len \in 0 .. (IF kind = "Advertising" THEN 31 ELSE 64)

\* What a network lets a station use.
Offers(security) ==
  CASE security = "Wpa2Personal" -> {"Wpa2"}
    [] security = "Wpa3Personal" -> {"Wpa3"}
    [] security = "Wpa2Wpa3PersonalTransition" -> {"Wpa2", "Wpa3"}
    [] security \in {"Open", "OtherProtected"} -> {}

StationFits(station) ==
  /\ station.config.security = station.chosen
  /\ station.chosen.mode \in Offers(station.scan.security)
  /\ <<station.config.ssid, station.config.bssid, station.config.channel>>
       = <<station.scan.ssid, station.scan.bssid, station.scan.channel>>
  /\ ManagementFrameProtection(station.config.security) = "Optional" => station.chosen = Wpa2

\* Printable ASCII, the space included.
Printable == 32 .. 126

Fits(value) ==
  /\ value.type = "BluetoothAddress" =>
         value.kind = KindOfBits(value.by, Bits(value.bytes)) /\ value.kind # "None"
  /\ value.type = "SleAddress" => Bits(value.bytes) # {}
  /\ value.type = "Passkey"    => value.value \in 0 .. 10^6 - 1
  /\ value.type = "RssiDbm"    => value.value \in -128 .. 126
  /\ value.type = "Timeout"    => value.value > 0
  /\ value.type = "WorkBudget" => value.events > 0 /\ value.time > 0
  /\ value.type = "Interval"   => IntervalFits(value.kind, value.units)
  /\ value.type = "Timing"     => TimingFits(value)
  /\ value.type = "Channels"   => ChannelsFit(value.bits)
  /\ value.type = "Payload"    => PayloadFits(value.kind, value.len)
  /\ value.type = "Request"    =>
         /\ TimingFits(value.parts[1])
         /\ Len(value.parts) > 1 =>
              ChannelsFit(value.parts[2].bits) /\ PayloadFits(value.kind, value.parts[3].len)
  /\ value.type = "Ssid"       => Len(value.bytes) \in 1 .. 32
  /\ value.type = "Passphrase" => Len(value.bytes) \in 8 .. 63 /\ ToSet(value.bytes) \subseteq Printable
  /\ value.type = "Station"    => StationFits(value)
  /\ value.type = "ScanResult" => Len(value.ssid) \in 1 .. 32

\* What the documentation of a passphrase (8 to 63 bytes of printable ASCII,
\* wifi.rs:149) rules out and its constructor, which looks for the control
\* characters of ASCII only, lets through: a byte that is not ASCII.
IsBeyondAscii(value) ==
  /\ value.type = "Passphrase"
  /\ Len(value.bytes) \in 8 .. 63 /\ ToSet(value.bytes) \cap 128 .. 255 # {}

DatabaseType == {"Descriptor", "Attribute", "Service", "Server"}
ErrorType == {"BackendError", "Diagnostic", "FacadeDiagnostic"}

ValueHasRoom(value) == value.initialLen \in 0 .. value.maximumLen /\ value.maximumLen > 0

\* What the constructors of an attribute say they validate: of both kinds the
\* capacity of every value, of a characteristic that publishes also "the
\* notification/indication CCC contract" (ble.rs:634), of a property the
\* "permission/operation consistency" (sle.rs:396).  That is not all a peer
\* needs: nobody compares the READ and WRITE of a characteristic with its
\* permissions, or asks whether a configuration descriptor can be written.
AttributeKeepsContract(attribute) ==
  /\ ValueHasRoom(attribute)
  /\ \A d \in ToSet(attribute.descriptors) : ValueHasRoom(d)
  /\ attribute.protocol = "GATT" /\ attribute.operations \cap {"NOTIFY", "INDICATE"} # {} =>
       Uuid16(CCC) \in {d.uuid : d \in ToSet(attribute.descriptors)}
  /\ attribute.protocol = "SSAP" => attribute.operations \cap Permission \subseteq attribute.permissions

ServiceKeepsContract(service) ==
  service.attributes # <<>> /\ \A a \in ToSet(service.attributes) : AttributeKeepsContract(a)

KeepsContract(value) ==
  /\ value.type = "Descriptor" => ValueHasRoom(value)
  /\ value.type = "Attribute"  => AttributeKeepsContract(value)
  /\ value.type = "Service"    => ServiceKeepsContract(value)
  /\ value.type = "Server"     =>
         value.services # <<>> /\ \A s \in ToSet(value.services) : ServiceKeepsContract(s)

\* A reader of JSON strings, from RFC 8259: what is written at a position is
\* a character and where the next one begins, the closing quote, or an error.
HexValue(c) == IF c \in 48 .. 57 THEN c - 48 ELSE c - 87
NamedEscape ==
  [c \in {Quote, Backslash, 110, 114, 116} |->
     CASE c = 110 -> 10 [] c = 114 -> 13 [] c = 116 -> 9 [] c \in {Quote, Backslash} -> c]

CharacterAt(json, i) ==
  LET named == i < Len(json) /\ json[i] = Backslash /\ json[i + 1] \in DOMAIN NamedEscape
      coded == i + 5 < Len(json) /\ json[i] = Backslash /\ json[i + 1] = 117
      plain == json[i] >= 32 /\ json[i] \notin {Quote, Backslash}
  IN CASE named -> <<NamedEscape[json[i + 1]], i + 2>>
       [] coded -> <<16 * HexValue(json[i + 4]) + HexValue(json[i + 5]), i + 6>>
       [] plain -> <<json[i], i + 1>>
       [] ~(named \/ coded \/ plain) -> <<-1, i + 1>>

\* The text of a string whose closing quote is its last character.
ReadFrom(json) ==
  LET read[i \in 2 .. Len(json) + 5] ==
        IF i >= Len(json) THEN <<>>
        ELSE <<CharacterAt(json, i)[1]>> \o read[CharacterAt(json, i)[2]]
  IN read[2]

-----------------------------------------------------------------------------
(* Properties *)

\* A request is made of parts that are valid and fit together, and nothing
\* valid is refused: an address has the kind its bits say, a window fits into
\* its interval, a station uses the security that was chosen, which the
\* network of the scan result offers, and no refused request keeps its
\* passphrase.  Excepted is a passphrase with bytes that are not ASCII, which
\* the code accepts (wifi.rs:151) and its documentation does not (wifi.rs:149).
RequestsAreValid ==
  /\ \A value \in ToSet(parts) : value.type \notin DatabaseType \cup ErrorType =>
       Fits(value) \/ IsBeyondAscii(value)
  /\ \A value \in refused : value.type \notin DatabaseType \cup ErrorType =>
       /\ ~Fits(value)
       /\ value.type = "Station" => ToSet(value.config.passphrase) \subseteq {0}

\* However many calls built it, a whole database keeps what the constructors of
\* its parts promise, and no part that keeps it is refused.  Whether a peer
\* has the permissions for all that a GATT database names is not promised, and
\* not claimed here.
DatabasesKeepContract ==
  /\ \A value \in ToSet(parts) : value.type \in DatabaseType => KeepsContract(value)
  /\ \A value \in refused : value.type \in DatabaseType => ~KeepsContract(value)

\* What is written has a name in the schema.
IsNamed(json) ==
  /\ json.code \in DiagnosticCode /\ json.stage \in DiagnosticStage
  /\ json.action \in RecoveryAction
  /\ \A entry \in ToSet(json.trace) : entry.kind \in DiagnosticTraceKind

\* A diagnostic loses nothing the backend said but the trace entries behind
\* the first ones, and says that it lost those; no two classes have the same
\* code, and all that is written has a name in the schema.
IsComplete(value) ==
  /\ value.type \in {"Diagnostic", "FacadeDiagnostic"} => IsNamed(value.json)
  /\ value.type = "Diagnostic" =>
       LET error == value.error
           json == value.json
           pushed == history.pushed
           kept == IF Len(pushed) < TraceCapacity THEN Len(pushed) ELSE TraceCapacity
       IN /\ json.backendCode = Some(error.code)
          /\ {c \in BackendErrorClass : CodeAndAction(c)[1] = json.code} = {error.class}
          /\ IF history.stage = None THEN json.stage = DefaultStage(error.class)
                                     ELSE json.stage \in history.stage
          /\ json.trace = SubSeq(pushed, 1, kept)
          /\ json.truncated = (Len(pushed) > TraceCapacity)
          /\ json.revision = {JsonString(text) : text \in history.revision}
  /\ value.type = "FacadeDiagnostic" =>
       /\ value.json.code = value.error
       /\ \A c \in BackendErrorClass : CodeAndAction(c)[1] # value.json.code
       /\ value.json.trace = <<>> /\ value.json.backendCode = None

DiagnosticsAreComplete == \A value \in ToSet(parts) : IsComplete(value)

\* And the JSON string it has for the revision reads back as the revision.
DiagnosticsAreLossless ==
  /\ DiagnosticsAreComplete
  /\ \A value \in ToSet(parts) : value.type = "Diagnostic" =>
       {ReadFrom(text) : text \in value.json.revision} = history.revision
=============================================================================

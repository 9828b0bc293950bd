------------------------------- MODULE Config -------------------------------
(***************************************************************************)
(* Loading and validating the configuration, src/src/app/config.cpp.  A    *)
(* file is the tree YAML makes of it; the model keeps what decides whether *)
(* the program starts and how it polls.                                    *)
(***************************************************************************)
EXTENDS Identifiers

CONSTANTS Absent,        \* a field that is missing
          Garbled,       \* a field whose text does not convert
          SizeValues     \* number of values of std::size_t

ASSUME FieldAssumption == Absent \notin Int /\ Garbled \notin Int
ASSUME SizeAssumption == SizeValues \in Nat \ {0}

Given(field, default) == IF field \in {Absent, Garbled} THEN default ELSE field

\* Mutant of ToSize: the number keeps its sign.
ToSizeSigned(n) == n

\* static_cast<std::size_t>() of an int.
ToSize(n) == n % SizeValues

(***************************************************************************)
(* load().                                                                 *)
(***************************************************************************)
DefaultSerial ==
  [device |-> "", baudrate |-> 2400, databits |-> 8, stopbits |-> 1, parity |-> "E"]

\* A parity that does not convert is even, whatever the base has; one that is
\* empty is Absent.
parse_serial_node(node, base) ==
  [f \in DOMAIN base |->
     IF f = "parity" /\ node[f] = Garbled THEN "E" ELSE Given(node[f], base[f])]

DefaultMqtt ==
  [enabled |-> FALSE, tls |-> FALSE, gateway_id |-> "", broker |-> "",
   port |-> 1883, qos |-> 1, max_queue |-> 512]

parse_mqtt_node(node) ==
  LET mqtt == [f \in DOMAIN DefaultMqtt |-> Given(node[f], DefaultMqtt[f])]
  IN  [mqtt EXCEPT !.max_queue = ToSize(@)]

AddressOf(m) == from_string(Given(m.address, <<>>))

LoadedMeter(m, base) ==
  [address |-> AddressOf(m)[1],
   serial  |-> parse_serial_node(m.serial, base),
   enabled |-> Given(m.enabled, TRUE)]

LoadedItem(item) ==
  [data_length |-> Given(item.length, 0), enabled |-> Given(item.enabled, TRUE)]

\* std::stoul() throws when the identifier does not start with a number.
Loadable(file) ==
  /\ file.readable
  /\ \A n \in DOMAIN file.meters : AddressOf(file.meters[n]) # <<>>
  /\ \A n \in DOMAIN file.data_items : file.data_items[n].di \notin {Absent, Garbled}

\* No value, or the configuration; the serial line of the root is the default
\* of each meter's, field by field.
load(file) ==
  LET base == parse_serial_node(file.serial, DefaultSerial) IN
  IF Loadable(file)
  THEN <<[meters     |-> [n \in DOMAIN file.meters |-> LoadedMeter(file.meters[n], base)],
          data_items |-> [n \in DOMAIN file.data_items |-> LoadedItem(file.data_items[n])],
          poll_interval_seconds |-> Given(file.poll_interval_seconds, 60),
          mqtt |-> parse_mqtt_node(file.mqtt)]>>
  ELSE <<>>

(***************************************************************************)
(* validate(): the errors it lists.                                        *)
(***************************************************************************)
EnabledIn(s) == {n \in DOMAIN s : s[n].enabled}

MeterErrors(meters) ==
  [noMeters       |-> meters = <<>>,
   noDevice       |-> \E n \in EnabledIn(meters) : meters[n].serial.device = "",
   noEnabledMeter |-> EnabledIn(meters) = {}]

\* Mutant of ItemErrors: a list of items is enough.
ItemErrorsLax(items) == [noItems |-> items = <<>>, noEnabledItem |-> FALSE]

ItemErrors(items) ==
  [noItems       |-> items = <<>>,
   noEnabledItem |-> items # <<>> /\ EnabledIn(items) = {}]

MqttErrors(mqtt) ==
  [tls       |-> mqtt.tls,
   gateway   |-> mqtt.gateway_id = "",
   broker    |-> mqtt.broker = "",
   port      |-> mqtt.port \notin 1..65535,
   qos       |-> mqtt.qos \notin 0..2,
   max_queue |-> mqtt.max_queue = 0]

True(table) == {e \in DOMAIN table : table[e]}

validate(config) ==
  True(MeterErrors(config.meters)) \cup True(ItemErrors(config.data_items))
    \cup True([interval |-> config.poll_interval_seconds <= 0])
    \cup (IF config.mqtt.enabled THEN True(MqttErrors(config.mqtt)) ELSE {})

(***************************************************************************)
(* SerialPort::open(): the settings it can apply.                          *)
(***************************************************************************)
Supported(serial) ==
  /\ serial.baudrate \in {1200, 2400, 4800, 9600, 19200}
  /\ serial.databits \in {7, 8}
  /\ serial.parity \in {"E", "e", "O", "o", "N", "n"}
  /\ serial.stopbits \in {1, 2}
=============================================================================

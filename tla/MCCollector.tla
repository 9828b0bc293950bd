---------------------------- MODULE MCCollector -----------------------------
(***************************************************************************)
(* Finite instances of Collector: files that differ from a sound one in    *)
(* each field the program decides by.                                      *)
(***************************************************************************)
EXTENDS Collector

NoLine == [f \in DOMAIN DefaultSerial |-> Absent]
Line   == [NoLine EXCEPT !.device = "tty0"]

Zeros == [k \in 1..12 |-> 0]

On      == [address |-> Zeros, serial |-> Line, enabled |-> Absent]
Off     == [On EXCEPT !.enabled = FALSE]
Second  == [On EXCEPT !.serial.device = "tty1"]
OddBaud == [On EXCEPT !.serial.baudrate = 300]
NoName  == [On EXCEPT !.serial = NoLine]
Letters == [On EXCEPT !.address = [Zeros EXCEPT ![2] = 10]]

Item(length, enabled) == [di |-> 0, length |-> length, enabled |-> enabled]

NoMqtt == [f \in DOMAIN DefaultMqtt |-> Absent]
Queue(n) ==
  [NoMqtt EXCEPT !.enabled = TRUE, !.gateway_id = "gw", !.broker = "host", !.max_queue = n]

Sound == [readable |-> TRUE, serial |-> NoLine, meters |-> <<On>>,
          data_items |-> <<Item(2, Absent)>>, poll_interval_seconds |-> 1,
          mqtt |-> Queue(1)]

SomeFiles ==
  {[Sound EXCEPT !.readable = FALSE]}
  \cup {[Sound EXCEPT !.meters = m] :
          m \in {<<>>, <<Off>>, <<Off, Second>>, <<On, Off, Second>>, <<OddBaud>>,
                 <<NoName>>, <<Letters>>}}
  \cup {[Sound EXCEPT !.meters = <<NoName, Second>>, !.serial = Line],
        [Sound EXCEPT !.serial.parity = "X", !.meters = <<[On EXCEPT !.serial.parity = Garbled]>>]}
  \cup {[Sound EXCEPT !.data_items = items, !.mqtt = NoMqtt] :
          items \in {<<>>, <<Item(2, FALSE)>>, <<Item(2, FALSE), Item(Garbled, Absent)>>,
                     <<Item(-1, Absent)>>, <<Item(-5, Absent)>>, <<Item(-4, FALSE), Item(2, TRUE)>>,
                     <<[Item(2, Absent) EXCEPT !.di = Garbled]>>}}
  \cup {[Sound EXCEPT !.poll_interval_seconds = 0]}
  \cup {[Sound EXCEPT !.mqtt = mqtt] :
          mqtt \in {Queue(-1), Queue(0), Queue(2), [Queue(1) EXCEPT !.tls = TRUE],
                    [Queue(1) EXCEPT !.broker = Absent], [Queue(1) EXCEPT !.gateway_id = ""],
                    [Queue(1) EXCEPT !.port = 65536], [Queue(1) EXCEPT !.qos = 3]}}
=============================================================================

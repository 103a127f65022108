------------------------------- MODULE MCCodec ------------------------------
(* Codec with the constants of its TLC runs: five bits a byte, one of them *)
(* the continuation bit, and values at the limits of one, two and three    *)
(* bytes.  Tags take keys of one, two and three bytes.                     *)
EXTENDS Codec

SmallTags ==
  [devEui |-> 1, appKey |-> 8, devAddr |-> 9, txPort |-> 14,
   HUMIDITY_HIGH |-> 24, HUMIDITY_LOW |-> 25, TEMPERATURE_HIGH |-> 26,
   TEMPERATURE_LOW |-> 27, singleCount |-> 127]

Plain ==
  [devEui : {0, 33, 1023}, appKey : {<<0, 16, 31>>, <<8, 1, 9>>},
   devAddr : {0, 31}, txPort : {0, 15, 16, 255, 256, 1023}]

WithButton(p, n) ==
  [devEui |-> p.devEui, appKey |-> p.appKey, devAddr |-> p.devAddr,
   txPort |-> p.txPort, mode |-> "off", threshold |-> 0, singleCount |-> n]
WithSensor(p, m, t) ==
  [devEui |-> p.devEui, appKey |-> p.appKey, devAddr |-> p.devAddr,
   txPort |-> p.txPort, mode |-> m, threshold |-> t, singleCount |-> 0]

SmallConfigs ==
  {WithButton(p, n) : p \in Plain, n \in {0, 15, 16}}
    \cup {WithSensor(p, m, t) : p \in Plain, m \in Modes \ Humidity, t \in {-16, -1, 0, 8, 15}}
    \cup {WithSensor(p, m, t) : p \in Plain, m \in Humidity, t \in {0, 8}}
=============================================================================

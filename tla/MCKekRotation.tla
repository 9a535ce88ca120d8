---------------------------- MODULE MCKekRotation ----------------------------
EXTENDS KekRotation

\* Two versions of the key, with ids of their own.
MCConfigs == {[version |-> 1, id |-> "primary"], [version |-> 2, id |-> "second"]}
MCFirst   == [version |-> 1, id |-> "primary"]

=============================================================================

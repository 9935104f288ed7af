----------------------------- MODULE MCSettings -----------------------------
(* A small instance of Settings, with values at and beyond every limit.    *)
EXTENDS Settings

SomeSelects ==
  {[target |-> 1, action |-> 2, membank |-> 1, pointer |-> 32, length |-> 96, truncate |-> 0,
    mask |-> "a"],
   [target |-> 15, action |-> 8, membank |-> 7, pointer |-> 16909060, length |-> 1,
    truncate |-> 128, mask |-> "b"],
   [target |-> 6, action |-> 255, membank |-> 2, pointer |-> 2147483647, length |-> 255,
    truncate |-> 1, mask |-> "a"]}

SomeFactorySelect ==
  [selparam |-> 1, pointer |-> <<0, 0, 0, 32>>, length |-> 96, truncate |-> 0, mask |-> "a"]
SomeFactoryPower == <<7, 208>>

SomePowers == {0, 999, 1000, 2077, 2600, 65535}
SomeQueryWords == {0, 32, 4129, 4370, 8191, 65535}
=============================================================================

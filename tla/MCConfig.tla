-------------------------------- MODULE MCConfig -------------------------------
(* A small configuration, and the files it may be given: see MCConfig.cfg. *)
EXTENDS Config, TLC

CONSTANTS c1, c2, x, p, q

Row(i, r) == [id |-> i, is |-> r]
A == CHOOSE b \in Binaries : TRUE
Core(id) == Row(id, [exe |-> A, name |-> "chosen"])

Keyed == Row(x, [keyed |-> TRUE, secret |-> TRUE])
Of(i, c, y) == Row(i, [core |-> c, proxy |-> y, dir |-> "gone"])
File(credentials, cores, proxies, profiles) ==
    [credentials |-> credentials, cores |-> cores, proxies |-> proxies, profiles |-> profiles]

Files == {
    \* another machine's backup
    File("included", <<Core(c2)>>, <<Keyed>>, <<Of(p, c2, x), Of(q, c2, Direct)>>),
    \* exported without credentials
    File("excluded", <<Core(c2)>>, <<Row(x, [keyed |-> TRUE, secret |-> FALSE])>>, <<Of(q, c2, x)>>),
    \* edited by hand: names what it does not hold, holds one identifier twice, blanks a name
    File("included", <<Core(c2)>>, <<>>, <<Of(q, c2, x)>>),
    File("included", <<Core(c2)>>, <<>>, <<Of(q, c2, Direct), Of(q, c1, Direct)>>),
    File("included", <<Core(c1), Row(c1, [exe |-> A, name |-> "suggested"])>>, <<>>,
         <<Of(q, c1, Direct), Of(q, c1, Direct)>>),
    File("included", <<Row(c2, [exe |-> A, name |-> "blank"])>>, <<>>, <<Of(q, c2, Direct)>>)}

Starts == {
    Empty,
    [cores |-> (c1 :> [exe |-> A, name |-> "suggested"]), proxies |-> (x :> [keyed |-> FALSE, secret |-> TRUE]),
     profiles |-> (p :> [core |-> c1, proxy |-> x, dir |-> "default"])]}
=============================================================================

------------------------------- MODULE MCKeys -------------------------------
(* One operator with two commands and a server that keeps its seed           *)
(* in memory; and two servers with seeds of their own on one machine.        *)
EXTENDS Keys

PlainValue(n) == [kind |-> "plain", seed |-> n, origin |-> n]
Key(m, id) == Resource(m, id, 0)

OneOperator(resources, keys) ==
  [procs |-> {1, 2}, servers |-> {1}, backends |-> {"memory"}, values |-> {},
   resources |-> resources, keys |-> keys]

TestDeployments ==
  { OneOperator({Resource("GcpSecretManager", "i", 0), Resource("GcpSecretManager", "i", 1)}, {None}),
    OneOperator({Key("AwsKms", "i"), Key("AwsSecretManager", "i"), Key("GcpKms", "i"),
                 Key("Plain", "i"), Key(Bare, "i")},
                {None, Some(Key("AwsKms", "j")), Some(Key(Bare, "i"))}),
    [procs |-> {}, servers |-> {1, 2}, backends |-> {"krs", "ssh-agent"},
     values |-> {PlainValue(5), PlainValue(6)}, resources |-> {}, keys |-> {}] }
=============================================================================

-------------------------------- MODULE MCApi --------------------------------
(* Api on a small instance. *)
EXTENDS Api, TLC

CONSTANTS c1, c2, h1, h2, p1

Submit(via, tenant, key, priority, maxAttempts) ==
    [op |-> "submit", via |-> via, handler |-> "echo",
     params |-> [tenant |-> tenant, queue |-> NULL, key |-> key, priority |-> priority,
                 maxAttempts |-> maxAttempts, runAt |-> 0]]

Key1(via) == Submit(via, NULL, "k", 0, 0)
Cancel == [Key1("rest") EXCEPT !.op = "cancel"]
Requeue == [Key1("grpc") EXCEPT !.op = "requeue"]

(* The same key twice over REST, and over REST and gRPC with a priority    *)
(* that wraps around; another tenant's; a submission and another           *)
(* operation; no key, and a priority that REST refuses or the table does.  *)
MCWorkloads ==
    {c1 :> Key1("rest") @@ c2 :> q :
        q \in {Key1("rest"), Submit("grpc", "tenant-1", "k", 65537, 3), Cancel, Requeue}}
    \cup {c1 :> Key1("grpc") @@ c2 :> Submit("grpc", "tenant-2", "k", 9, 100),
          c1 :> Submit("rest", NULL, NULL, 1, 0) @@ c2 :> Submit("rest", NULL, NULL, 65537, 0),
          c1 :> Submit("grpc", NULL, NULL, 1, 0) @@ c2 :> Submit("grpc", NULL, NULL, 0 - 1, 0)}

MCIds == 1 .. 3
=============================================================================

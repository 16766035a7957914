----------------------------- MODULE MCInProcess -----------------------------
(* The components of ServiceCore and EventPath, the names of event types and   *)
(* JSON pointers.  They share no state, so a behaviour follows one of them,    *)
(* chosen at the start, and leaves the others alone.                           *)
EXTENDS ServiceCore, EventPath, EventType, Withhold, TLC

CONSTANTS
  g1, g2, g3   \* goroutines

VARIABLE component

idVars  == vars
allVars == <<component, idVars, poolVars, httpVars, name, envVars, corrVars, pointerVars, retryVars>>

\* A response whose keys are those a pointer has to escape, the empty one and
\* ones that read as an index.
Inner(p) == p :> "object" @@ Append(p, Key(<<"a">>)) :> "leaf" @@ Append(p, Key(<<"/">>)) :> "leaf"

Response ==
  LET At(k) == <<Key(k)>> IN
  <<>> :> "object" @@ Inner(At(<<"a">>)) @@ Inner(At(<<"~">>)) @@ Inner(At(<<>>))
    @@ At(<<"1">>) :> "leaf" @@ At(<<"/">>) :> "leaf" @@ At(<<"~", "1">>) :> "leaf"
    @@ At(<<"0">>) :> "array" @@ Append(At(<<"0">>), Index(0)) :> "leaf"
    @@ Inner(Append(At(<<"0">>), Index(1)))

Start ==
  /\ component \in {"id", "pool", "http", "type", "envelope", "correlation", "pointer", "retry"}
  /\ Init /\ (component # "id" => clock = 1)
  /\ Pool!Init
  /\ Http!Init
  /\ TypeInit
  /\ Env!Init
  /\ Corr!Init
  /\ body = (IF component = "pointer" THEN Response ELSE <<>> :> "leaf") /\ PointerInit
  /\ Retry!Init /\ (component # "retry" => base = 1 /\ ceiling = 1)

\* The component at work leaves the variables of every other alone.
Step ==
  /\ UNCHANGED component
  /\ component # "id"          => UNCHANGED idVars
  /\ component # "pool"        => UNCHANGED poolVars
  /\ component # "http"        => UNCHANGED httpVars
  /\ component # "type"        => UNCHANGED name
  /\ component # "envelope"    => UNCHANGED envVars
  /\ component # "correlation" => UNCHANGED corrVars
  /\ component # "pointer"     => UNCHANGED pointerVars
  /\ component # "retry"       => UNCHANGED retryVars
  /\ \/ component = "id"          /\ Next
     \/ component = "pool"        /\ Pool!Next
     \/ component = "http"        /\ Http!Next
     \/ component = "type"        /\ TypeNext
     \/ component = "envelope"    /\ Env!Next
     \/ component = "correlation" /\ Corr!Next
     \/ component = "pointer"     /\ PointerNext
     \/ component = "retry"       /\ Retry!Next

Components == Start /\ [][Step]_allVars

-----------------------------------------------------------------------------
\* Goroutines are interchangeable.
Goroutines == Permutations(Threads)

=============================================================================

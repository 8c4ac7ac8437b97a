------------------------ MODULE MCCommandAuthority -------------------------
(***************************************************************************)
(* TLC instance of CommandAuthority: one source goes through streams up to *)
(* a full retired history while another competes with it for authority.    *)
(***************************************************************************)
EXTENDS CommandAuthority

Drive(stream, sequence, ttl) ==
    [stream_id |-> stream, sequence |-> sequence, ttl_ms |-> ttl,
     valid |-> TRUE, deadman |-> TRUE, body |-> VelocityLimit]

\* Requests publish must refuse whoever sends them: no stream, a velocity that
\* is not finite or over the limit.  (A ttl is out of range near U64Max.)
Refused ==
    LET drive == Drive(1, 2, 1)
    IN  {[drive EXCEPT !.stream_id = 0], [drive EXCEPT !.body = NonFinite],
         [drive EXCEPT !.body = -VelocityLimit - 1]}

\* Drive, withdraw, and come back with other streams, the deadman released.
Asked ==
    {Drive(1, 1, MaxTtl), Drive(1, 2, 1),
     [Drive(1, 3, 1) EXCEPT !.valid = FALSE],
     [Drive(2, 1, MaxTtl) EXCEPT !.deadman = FALSE],
     [Drive(3, 1, MaxTtl) EXCEPT !.deadman = FALSE]}

\* Source 2 asks for everything; source 3, of higher priority, competes.
SourcesCompete ==
    ({2} \X (Asked \union Refused))
        \union ({3} \X {Drive(1, 1, MaxTtl), Drive(1, 2, 1)})
=============================================================================

---------------------------- MODULE MCDbLogSink ----------------------------
(* A small instance of DbLogSink for TLC. *)
EXTENDS DbLogSink

CONSTANTS a, b, c, d, e

Plain == [level |-> "INFO", message |-> {}, module |-> {},
          extra |-> [type |-> "number", flaws |-> {}]]

\* a has nothing, b what the conversion mends, c and d what it does not, and e is
\* what SQLAlchemy logs about the writing of rows.
SomeContent ==
    (a :> Plain)
      @@ (b :> [Plain EXCEPT !.message = {"nul", "long"}, !.module = {"long"},
                             !.extra = [type |-> "object", flaws |-> {"nul", "surrogate"}]])
      @@ (c :> [Plain EXCEPT !.message = {"surrogate"}])
      @@ (d :> [Plain EXCEPT !.extra = [type |-> "number", flaws |-> {"nonfinite"}]])
      @@ (e :> [Plain EXCEPT !.level = "VERBOSE"])
=============================================================================

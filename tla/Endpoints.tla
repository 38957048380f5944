----------------------------- MODULE Endpoints ------------------------------
(* ORIGIN and REPLICA arguments (endpoint.rs).  A text is a sequence of
   characters, with one character for each class the code tells apart; the
   schemes grpc://, grpcs://, http:// and https:// are one character each, which
   can only come first; "sp" is a blank. *)
EXTENDS Naturals, Sequences, FiniteSetsExt

CONSTANTS
  Letters,    \* ASCII letters
  Schemes,    \* the four URL schemes
  Addresses,  \* texts that parse as an IP address
  Localhost   \* "localhost" in any case

ASSUME EndpointsAssumption == \A a \in Addresses : a # <<>> /\ Range(a) \cap {"/", "@"} = {}

Has(text, c) == c \in Range(text)
FirstOf(text, c) == Min({i \in DOMAIN text : text[i] = c})
LastOf(text, c) == Max({i \in DOMAIN text : text[i] = c})
Before(text, i) == SubSeq(text, 1, i - 1)
After(text, i) == SubSeq(text, i + 1, Len(text))

(* Mutant: a directory in front of the colon is not looked for. *)
looks_like_remote_anywhere(host) ==
  /\ host # <<>> /\ Head(host) # "."
  /\ Has(host, "@") \/ host = Localhost \/ host \in Addresses \/ Has(host, ".")
looks_like_remote_host(host) ==
  /\ host # <<>> /\ Head(host) # "."
  /\ ~Has(host, "/") /\ ~Has(host, "\\") /\ ~Has(host, "sp")
  /\ Has(host, "@") \/ host = Localhost \/ host \in Addresses \/ Has(host, ".")

is_remote_candidate(host, path) ==
  /\ ~(Len(host) = 1 /\ host[1] \in Letters)
  /\ path # <<>>
  /\ looks_like_remote_host(host)

RemoteEndpoint(host, path) == [kind |-> "ssh", host |-> host, path |-> path]

(* [host]:path, then address:path at the last colon, then host:path at the
   first one; {} if none applies.  With a user in front, an IPv6 address is not
   taken for one and is cut at its first colon, as is every text the comment in
   Endpoint::parse would have split on the final one. *)
Bracketed(text) ==
  LET ends == {i \in 1..(Len(text) - 1) : text[i] = "]" /\ text[i + 1] = ":"}
      end == Min(ends) IN
  IF ends # {} /\ Head(text) = "[" /\ end > 2 /\ end + 1 < Len(text)
  THEN {RemoteEndpoint(SubSeq(text, 2, end - 1), After(text, end + 1))} ELSE {}

SplitAt(text, i) == RemoteEndpoint(Before(text, i), After(text, i))

parse_remote_parts(text) ==
  IF Bracketed(text) # {} THEN Bracketed(text)
  ELSE IF ~Has(text, ":") THEN {}
  ELSE LET last == SplitAt(text, LastOf(text, ":"))
           first == SplitAt(text, FirstOf(text, ":")) IN
       IF last.host \in Addresses /\ is_remote_candidate(last.host, last.path) THEN {last}
       ELSE IF is_remote_candidate(first.host, first.path) THEN {first}
       ELSE {}

(* trim_start_matches('/') of the database name. *)
TrimSlashes(text) ==
  LET kept == {i \in DOMAIN text : text[i] # "/"} IN
  IF kept = {} THEN <<>> ELSE SubSeq(text, Min(kept), Len(text))

(* The URL is the host under http or https; which of the two is left out. *)
parse_grpc_parts(text) ==
  IF text = <<>> \/ Head(text) \notin Schemes THEN {}
  ELSE LET rest == Tail(text)
           host == IF Has(rest, "/") THEN Before(rest, FirstOf(rest, "/")) ELSE rest
           path == IF Has(rest, "/") THEN After(rest, FirstOf(rest, "/")) ELSE <<>> IN
       IF host = <<>> THEN {}
       ELSE {[kind |-> "grpc", host |-> host, path |-> TrimSlashes(path)]}

(* Endpoint::parse *)
ParseEndpoint(text) ==
  IF parse_grpc_parts(text) # {} THEN CHOOSE p \in parse_grpc_parts(text) : TRUE
  ELSE IF parse_remote_parts(text) # {} THEN CHOOSE p \in parse_remote_parts(text) : TRUE
  ELSE [kind |-> "local", host |-> <<>>, path |-> text]
-----------------------------------------------------------------------------
(* Paths stay local and hosts whole ("[user@]host:path are parsed as remote SSH
   endpoints. Everything else is treated as a local filesystem path"): a text
   with a directory separator in front of its first colon, or without a colon,
   never leads to another machine unless it is a URL or bracketed; a remote text
   is host, colon and path and nothing of it is lost; a colon is left in the
   host of an unbracketed text only if the host is an address; the host of a URL
   ends at its first slash, and the database name is the end of its text. *)
PathsStayLocal(text) ==
  LET e == ParseEndpoint(text)
      url == text # <<>> /\ Head(text) \in Schemes
      bracket == text # <<>> /\ Head(text) = "[" IN
  /\ ~url /\ ~bracket /\ (Has(text, ":") => Has(Before(text, FirstOf(text, ":")), "/"))
       => e.kind = "local" /\ e.path = text
  /\ e.kind = "ssh" =>
       /\ e.host # <<>> /\ e.path # <<>>
       /\ text \in {e.host \o <<":">> \o e.path, <<"[">> \o e.host \o <<"]", ":">> \o e.path}
       /\ ~bracket /\ Has(e.host, ":") => e.host \in Addresses
  /\ e.kind = "grpc" =>
       /\ url /\ e.host # <<>> /\ ~Has(e.host, "/")
       /\ \E i \in DOMAIN text : e.path = After(text, i)
=============================================================================

---------------------------- MODULE MCParserPool ----------------------------
(***************************************************************************)
(* Two parsers for ParserPool.                                             *)
(***************************************************************************)
EXTENDS ParserPoolProperties

OneEach == <<1, 1>>
=============================================================================

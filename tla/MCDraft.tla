------------------------------ MODULE MCDraft -------------------------------
(* Draft with three callers of with_data_modify, which call once each, and *)
(* one editor.                                                             *)
EXTENDS Draft
=============================================================================

------------------------------ MODULE MCWebsite ------------------------------
(* An instance of Website for TLC: three languages, and pages with h3      *)
(* before, after and without h2, and without any heading.                  *)
EXTENDS Website

Languages == <<"zh-cn", "en-us", "vi-vn">>

Contents == {<<"h3", "h2", "h3", "h2", "p">>, <<"h3", "p", "h3", "p">>, <<"p">>}

==============================================================================

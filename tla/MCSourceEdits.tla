------------------------------- MODULE MCSourceEdits -------------------------------
\* Small sources of every format: byte order mark, CRLF and LF, a last line without
\* terminator, blanks and comments around values, repeated keys and sections, escapes.
EXTENDS SourceEdits

Lf == <<"LF">>
CrLf == <<"CR", "LF">>
UpHead == <<"[", "G", "]">>
LowHead == <<"[", "g", "]">>
KeyV == <<"k", " ", "=", " ", "v", " ">>
KeyW == <<"k", "=", "w">>

IniDrafts(head, other) == {
    Bom \o head \o Lf \o KeyV \o Lf \o <<"l", "=">>,
    head \o CrLf \o KeyV \o CrLf \o <<"l", "=", "v">> \o Lf,
    head \o Lf \o KeyV \o Lf \o KeyW \o Lf,
    head \o Lf \o KeyW \o <<" ", "#", "v">> \o Lf \o other \o Lf \o <<"l", "=", "w">>,
    <<"#">> \o Lf \o head \o Lf \o KeyW \o <<" ", "#", "v">> \o Lf \o other \o Lf \o <<"l", "=", "v">>,
    <<"#">> \o Lf \o KeyW \o Lf \o head \o Lf \o <<"l", "=", "w">> \o Lf \o KeyW,
    head \o Lf \o KeyW \o Lf \o other \o Lf \o head \o Lf}

Key(k, v) == <<"\"">> \o k \o <<"\"", ":">> \o v

JsonDrafts == {
    <<"{">> \o Key(<<"k">>, <<" ", "1", " ">>) \o <<",">> \o Lf \o Key(<<"l">>, <<"[", "2", ",", "0", "]">>) \o <<"}">> \o Lf,
    Bom \o <<"{">> \o Key(<<"k">>, <<"{">>) \o Key(<<"l">>, <<"1">>) \o <<"}", "}">> \o CrLf,
    <<"{">> \o Key(<<"k", "/", "l">>, <<"1">>) \o <<",">> \o Key(<<"k", "~", "1", "l">>, <<"2">>) \o <<",">>
        \o Key(<<"k">>, <<"{">>) \o Key(<<"l">>, <<"null">>) \o <<"}", "}">>,
    <<"{">> \o Key(<<"k", "\\", "/", "l">>, <<"1">>) \o <<",">> \o Key(<<"k", "/", "l">>, <<"2">>) \o <<"}">>,
    <<"{">> \o Key(<<"k">>, <<"\"", "\\", "\"", "}", "\"">>) \o <<"}">>,
    <<"[", "1", "]">>}

Port7 == <<"mp", ":", " ", "7">>

MihomoDrafts == {
    Bom \o Port7 \o <<" ", "#", "8">> \o Lf \o <<"k", ":">> \o Lf \o <<" ">> \o Port7 \o Lf,
    Port7 \o CrLf \o <<"k", ":", " ", "v">> \o CrLf,
    Port7 \o <<"#", "8">> \o Lf \o <<"k", ":", " ", "v">>,
    <<"\"", "mp", "\"", ":", " ", "7">> \o Lf \o <<"k", ":", " ", "v">> \o Lf,
    Port7 \o Lf \o <<"\"", "mp", "\"", ":", " ", "8">> \o Lf,
    <<"#">> \o Port7 \o Lf \o <<"mp", ":", " ", "0">> \o Lf}

MCDrafts == [t \in {"surge", "quantumult-x", "sing-box", "mihomo"} |->
    CASE t = "surge" -> IniDrafts(UpHead, LowHead)
      [] t = "quantumult-x" ->
            {UpHead \o Lf \o KeyW \o Lf \o LowHead \o Lf \o KeyV \o Lf, LowHead \o CrLf \o KeyW}
      [] t = "sing-box" -> JsonDrafts
      [] t = "mihomo" -> MihomoDrafts]

MCPaths == [t \in DOMAIN MCDrafts |->
    CASE t = "surge" -> {<<"/", "G", "/", "k">>, <<"/", "G", "/", "l">>, <<"/", "g", "/", "l">>}
      [] t = "quantumult-x" -> {<<"/", "g", "/", "k">>, <<"/", "g", "/", "l">>}
      [] t = "sing-box" -> {<<"/", "k">>, <<"/", "k", "/", "l">>, <<"/", "k", "~", "1", "l">>, <<"/", "l", "/", "1">>, <<"~">>}
      [] t = "mihomo" -> {MixedPort, <<"/", "k">>}]

MCReplacements == [t \in DOMAIN MCDrafts |->
    CASE t = "sing-box" -> {<<"2">>, <<"[", "1", ",", "LF", "2", "]">>, <<"{", "}", "}">>}
      [] t = "mihomo" -> {<<"1", "0">>, <<"+", "9">>, <<"0">>, <<"7", " ">>}
      [] OTHER -> {<<"w">>, <<" ", "v">>, <<";", "v">>, <<"v", "LF">>, <<>>}]
=================================================================================

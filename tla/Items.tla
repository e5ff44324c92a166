------------------------------- MODULE Items -------------------------------
(***************************************************************************)
(* Request items (src/types/item.rs) and the bytes of their attachments    *)
(* (src/media.rs).  A file is named by what its first bytes say it is,     *)
(* a path by the format its suffix implies; both are None where the code   *)
(* finds nothing.  Attachments are resolved when the request is sent.      *)
(***************************************************************************)
EXTENDS Fields, SequencesExt

CONSTANT PcmMax      \* 32768: the magnitude of the lowest i16

ASSUME PcmAssumption == PcmMax \in Nat \ {0}

---------------------------------------------------------------------------
Formats == {"jpeg", "png", "gif", "webp", "bmp", "tiff"}

ASSUME NoneIsNoFormat == None \notin Formats

\* Magic bytes and a declared token; jpg and jpe are jpeg, in either case.
detect_image_format(content) ==
  IF content \in Formats THEN Ok(content)
  ELSE Err("invalid")

canonical_format(token) ==
  IF ~token.ascii \/ token.length \notin 1..32 THEN Err("invalid")
  ELSE Ok(IF token.lowered \in {"jpg", "jpe"} THEN "jpeg" ELSE token.lowered)

\* Where an attachment comes from: its bytes, a path (unreadable without a
\* file), decoded pixels, a waveform.
read_file(path) == IF path.file = None THEN Err("io") ELSE Ok(path.file)

encode_jpeg(pixels) == IF pixels.encodable THEN Ok("jpeg") ELSE Err("invalid")

Encoded(input) ==
  CASE input.from = "bytes" -> Ok(input.file)
    [] input.from = "path" -> read_file(input)
    [] input.from = "pixels" -> encode_jpeg(input)

\* Slip: jpg is not taken for jpeg.
Declared_raw(token) == Ok(token.lowered)

Declared(token) == canonical_format(token)

\* ImageInput::resolve: what the bytes say, which a declaration may confirm.
resolve_image(image) ==
  LET bytes == Encoded(image)
      detected == detect_image_format(bytes.value)
  IN IF ~bytes.ok THEN bytes
     ELSE IF ~detected.ok THEN detected
     ELSE IF image.format # None /\ ~Declared(image.format).ok THEN Declared(image.format)
     ELSE IF image.format # None /\ Declared(image.format).value # detected.value
     THEN Err("invalid")
     ELSE Ok([data |-> bytes.value, format |-> detected.value])

---------------------------------------------------------------------------
\* round_ties_even of p / q, for q > 0.
RoundTiesEven(p, q) ==
  LET low == p \div q
      rest == p - low * q
  IN IF 2 * rest < q \/ (2 * rest = q /\ low % 2 = 0) THEN low ELSE low + 1

Clamp(x, low, high) == IF x < low THEN low ELSE IF x > high THEN high ELSE x

\* The i16 range is asymmetric.
Scale(x) == IF x < 0 THEN PcmMax ELSE PcmMax - 1

\* to_pcm16 of the sample p / q.
pcm16(p, q) ==
  LET clamped == Clamp(p, -q, q)
  IN Clamp(RoundTiesEven(clamped * Scale(clamped), q), -PcmMax, PcmMax - 1)

\* samples: f32 as the numerators of a common denominator, or None for what is
\* not finite; i16 are written as they are.
to_pcm16(samples) ==
  IF samples.i16 THEN Ok(samples.values)
  ELSE IF \E i \in DOMAIN samples.values : samples.values[i] = None THEN Err("invalid")
  ELSE Ok([i \in DOMAIN samples.values |-> pcm16(samples.values[i], samples.unit)])

encode_wav(samples, channels, sample_rate) ==
  IF \/ sample_rate = 0 \/ channels \notin 1..2 \/ samples.values = <<>>
     \/ Len(samples.values) % channels # 0
  THEN Err("invalid")
  ELSE to_pcm16(samples)

\* infer_audio_format, infer_document_format, infer_video_format: the format
\* of a path's suffix, where the table of that kind has it.
Inferred(input, kind) ==
  IF input.from = "path" /\ kind \in input.suffixKinds THEN input.suffix ELSE None

\* AudioInput::resolve
resolve_audio(audio) ==
  IF audio.from = "waveform"
  THEN LET wav == encode_wav(audio.samples, audio.channels, audio.sample_rate)
       IN IF ~wav.ok THEN wav
          ELSE Ok([data |-> wav.value, format |-> Or(audio.format, "wav"),
                   sample_rate |-> audio.sample_rate])
  ELSE LET bytes == Encoded(audio)
       IN IF ~bytes.ok THEN bytes
          ELSE Ok([data |-> bytes.value, format |-> Or(audio.format, Inferred(audio, "audio")),
                   sample_rate |-> None])

\* BinaryInput::resolve
resolve_binary(input) ==
  LET bytes == Encoded(input)
  IN IF ~bytes.ok THEN bytes
     ELSE Ok([data |-> bytes.value, format |-> Or(input.format, Inferred(input, input.kind))])

---------------------------------------------------------------------------
Attached(input, resolved) == IF input = None THEN Ok(None) ELSE resolved

\* Item::to_msgpack: the fields that were set; the first attachment that
\* cannot be resolved is the error.
to_msgpack(item) ==
  LET images == All([i \in DOMAIN item.images |-> resolve_image(item.images[i])])
      parts == All(<<images, Attached(item.audio, resolve_audio(item.audio)),
                     Attached(item.video, resolve_binary(item.video)),
                     Attached(item.document, resolve_binary(item.document))>>)
  IN IF ~parts.ok THEN parts
     ELSE Ok(Given([id |-> item.id, text |-> item.text, metadata |-> item.metadata,
                    images |-> IF item.images = <<>> THEN None ELSE parts.value[1],
                    audio |-> parts.value[2], video |-> parts.value[3],
                    document |-> parts.value[4]]))

items_to_msgpack(items) == All([i \in DOMAIN items |-> to_msgpack(items[i])])

\* Item::new, text, image and the with_ methods set fields of this.
NewItem ==
  [id |-> None, text |-> None, images |-> <<>>, audio |-> None, video |-> None,
   document |-> None, metadata |-> None]
=============================================================================
